---- MODULE Spec2Model ----
(***************************************************************************)
(* Send engines of imap-flow.                                              *)
(*                                                                         *)
(* The repository holds several send engines; the variable `engine` says   *)
(* which one a behaviour runs:                                             *)
(*   "command"  src/src/send_command.rs  SendCommandState (client)         *)
(*   "send"     src/src/send.rs          SendCommandState<K> (older client)*)
(*   "server"   src/src/server.rs        ServerFlow over send.rs           *)
(*                                       SendResponseState<C, K>           *)
(*   "response" src/src/send_response.rs SendResponseState<C>              *)
(*                                                                         *)
(* `progress` is an async fn whose only suspension point is                *)
(* `stream.write_all(&mut write_buffer).await`.  It is split there:        *)
(* a Begin step runs the code before the await, Write steps move bytes     *)
(* from the write buffer to the stream, an End step runs the code after    *)
(* the await, and a Cancel step drops the future at the await.             *)
(*                                                                         *)
(* A byte is a record [h, f, i]: byte i of fragment f of the message with  *)
(* handle h, so that the stream contents say where each byte came from.    *)
(***************************************************************************)
EXTENDS Naturals, Integers, Sequences, FiniteSets, TLC

VARIABLES
    engine,            \* which engine this behaviour runs
    pc,                \* position of the progress future, see IdlePcs and WritingPcs
    write_buffer,      \* BytesMut write buffer of the engine
    wire,              \* bytes written to the stream so far
    events,            \* events returned by progress / maybe_remove so far
    next_handle,       \* handle generator counter
    enqueued,          \* history: commands / responses in enqueue order
    continued,         \* history: literals accepted by literal_continue, in order
    queued_commands,   \* send_command.rs: FIFO of QueuedCommand
    current_command,   \* send_command.rs: Option<CurrentCommand>
    send_queue,        \* send.rs: FIFO of queue entries
    send_progress,     \* send.rs: Option<SendCommandProgress> / Option<SendResponseProgress>
    queued_responses,  \* send_response.rs: FIFO of QueuedResponse
    current_response,  \* send_response.rs: Option<CurrentResponse>
    next_expected_message,  \* server.rs: NextExpectedMessage
    receive_command_state,  \* server.rs: variant of ServerReceiveState
    received,          \* messages the server's receive state has handed out
    receive_call,      \* the last call progress_receive made on the receive state
    waiting_tasks,     \* lib.rs: Scheduler::waiting_tasks, (handle, tag) of each task
    active_tasks,      \* lib.rs: Scheduler::active_tasks, (handle, tag) of each task
    scheduler_events,  \* what Scheduler::progress returned, and its panics
    task_calls,        \* the calls the scheduler made on its tasks
    tokens,            \* lib.rs: the TaskTokens the embedder holds
    resolved           \* what the calls of TaskHandle::resolve returned

cmdState == <<queued_commands, current_command>>
sendState == <<send_queue, send_progress>>
respState == <<queued_responses, current_response>>
serverState == <<next_expected_message, receive_command_state, received,
                 receive_call>>
tokenState == <<tokens, resolved>>
schedState == <<waiting_tasks, active_tasks, scheduler_events, task_calls, tokenState>>

vars == <<engine, pc, write_buffer, wire, events, next_handle, enqueued,
          continued, cmdState, sendState, respState, serverState, schedState>>

----------------------------------------------------------------------------
(* Bounds *)

MaxCmds == 2          \* commands enqueued in one behaviour
MaxAuthRounds == 1    \* rounds of authenticate data in one behaviour
MaxResponses == 2     \* responses enqueued in one behaviour
MaxReceives == 2      \* messages the server receives in one behaviour

\* Tags come from the embedder's TagGenerator: one tag per command, never reused.
Tags == 1..MaxCmds
TagOf(h) == h
RegularBodies == {"Noop", "NonSync", "Sync2", "Mixed"}
Bodies == RegularBodies \cup {"Authenticate", "Idle"}
\* The older engine knows two kinds of command, regular and AUTHENTICATE.
SendBodies == {"Noop", "NonSync", "Sync2", "Authenticate"}
StatusKinds == {"Ok", "No", "Bad"}

\* No progress future exists: the engine is between calls.  "cancelled" and
\* "cancelled_blocked": nothing was called since the last progress future was
\* dropped at its await ("writing", or one of the two other awaits).
IdlePcs == {"idle", "cancelled", "cancelled_blocked"}

\* The progress future is suspended in write_all.
WritingPcs == {"writing", "writing_need_continue", "flushing"}

----------------------------------------------------------------------------
(* Option and fragments *)

None == [kind |-> "None"]
NoData == [some |-> FALSE]
SomeData(d) == [some |-> TRUE, data |-> d]

\* The encoded bytes of fragment f of message h: two bytes, so that a write can
\* stop in the middle of a fragment.
Bytes(h, f) == <<[h |-> h, f |-> f, i |-> 1], [h |-> h, f |-> f, i |-> 2]>>

Line(h, f) == [type |-> "Line", mode |-> "NA", data |-> Bytes(h, f)]
Literal(h, f, mode) == [type |-> "Literal", mode |-> mode, data |-> Bytes(h, f)]

\* Fragment index of the lines that are encoded after the command itself.
AuthDataFrag(round) == 100 + round
IdleDoneFrag == 200

\* codec.encode(&command): the fragments of a command body.  A literal always
\* follows the line that announces it.
Encode(h, body) ==
    CASE body = "Noop"    -> <<Line(h, 1)>>
      [] body = "Sync2"   -> <<Line(h, 1), Literal(h, 2, "Sync"), Line(h, 3),
                               Literal(h, 4, "Sync"), Line(h, 5)>>
      [] body = "NonSync" -> <<Line(h, 1), Literal(h, 2, "NonSync"), Line(h, 3)>>
      [] body = "Mixed"   -> <<Line(h, 1), Literal(h, 2, "Sync"), Line(h, 3),
                               Literal(h, 4, "NonSync"), Line(h, 5)>>
      [] OTHER            -> <<Line(h, 1)>>

Statuses ==
    [type : {"Tagged"}, tag : Tags, kind : StatusKinds]
        \cup {[type |-> "Untagged", tag |-> 0, kind |-> k] : k \in StatusKinds}
        \cup {[type |-> "Bye", tag |-> 0, kind |-> "Ok"]}

----------------------------------------------------------------------------
(* send_command.rs: QueuedCommand::start *)

Start(q) ==
    CASE q.command.body = "Authenticate" ->
            [kind |-> "Authenticate", handle |-> q.handle, command |-> q.command,
             fragments |-> <<>>,
             activity |-> [name |-> "PushingAuthenticate",
                           data |-> SomeData(Encode(q.handle, q.command.body)[1].data)]]
      [] q.command.body = "Idle" ->
            [kind |-> "Idle", handle |-> q.handle, command |-> q.command,
             fragments |-> <<>>,
             activity |-> [name |-> "PushingIdle",
                           data |-> SomeData(Encode(q.handle, q.command.body)[1].data)]]
      [] OTHER ->
            [kind |-> "Command", handle |-> q.handle, command |-> q.command,
             fragments |-> Encode(q.handle, q.command.body),
             activity |-> [name |-> "PushingFragments", data |-> NoData]]

\* Mutant of PushFragments: a Sync literal is pushed like any other fragment.
RECURSIVE PushFragmentsAllModes(_, _)
PushFragmentsAllModes(fragments, buf) ==
    IF fragments = <<>>
    THEN [fragments |-> <<>>, buffer |-> buf, limbo_literal |-> NoData]
    ELSE PushFragmentsAllModes(Tail(fragments), buf \o Head(fragments).data)

(* send_command.rs: the loop of CommandState::push_to_buffer *)
RECURSIVE PushFragments(_, _)
PushFragments(fragments, buf) ==
    IF fragments = <<>>
    THEN [fragments |-> <<>>, buffer |-> buf, limbo_literal |-> NoData]
    ELSE LET fragment == Head(fragments) IN
         IF fragment.type = "Literal" /\ fragment.mode = "Sync"
         THEN [fragments |-> Tail(fragments), buffer |-> buf,
               limbo_literal |-> SomeData(fragment.data)]
         ELSE PushFragments(Tail(fragments), buf \o fragment.data)

(* send_command.rs: CommandState::push_to_buffer *)
CommandPushToBuffer(state, buf) ==
    IF state.activity.name = "PushingFragments"
    THEN LET accepted == IF state.activity.data.some
                         THEN buf \o state.activity.data.data
                         ELSE buf
             pushed == PushFragments(state.fragments, accepted)
         IN  [state |-> [state EXCEPT !.fragments = pushed.fragments,
                                      !.activity = [name |-> "WaitingForFragmentsSent",
                                                    data |-> pushed.limbo_literal]],
              buffer |-> pushed.buffer]
    ELSE [state |-> state, buffer |-> buf]

(* send_command.rs: AuthenticateState::push_to_buffer *)
AuthenticatePushToBuffer(state, buf) ==
    CASE state.activity.name = "PushingAuthenticate" ->
            [state |-> [state EXCEPT !.activity = [name |-> "WaitingForAuthenticateSent",
                                                   data |-> NoData]],
             buffer |-> buf \o state.activity.data.data]
      [] state.activity.name = "PushingAuthenticateData" ->
            [state |-> [state EXCEPT !.activity = [name |-> "WaitingForAuthenticateDataSent",
                                                   data |-> NoData]],
             buffer |-> buf \o state.activity.data.data]
      [] OTHER -> [state |-> state, buffer |-> buf]

(* send_command.rs: IdleState::push_to_buffer *)
IdlePushToBuffer(state, buf) ==
    CASE state.activity.name = "PushingIdle" ->
            [state |-> [state EXCEPT !.activity = [name |-> "WaitingForIdleSent",
                                                   data |-> NoData]],
             buffer |-> buf \o state.activity.data.data]
      [] state.activity.name = "PushingIdleDone" ->
            [state |-> [state EXCEPT !.activity = [name |-> "WaitingForIdleDoneSent",
                                                   data |-> NoData]],
             buffer |-> buf \o state.activity.data.data]
      [] OTHER -> [state |-> state, buffer |-> buf]

(* send_command.rs: CurrentCommand::push_to_buffer *)
PushToBuffer(current, buf) ==
    CASE current.kind = "Command"      -> CommandPushToBuffer(current, buf)
      [] current.kind = "Authenticate" -> AuthenticatePushToBuffer(current, buf)
      [] OTHER                         -> IdlePushToBuffer(current, buf)

Event(type, handle) == [type |-> type, handle |-> handle]
NoEvent == [type |-> "None", handle |-> 0]

Uncompleted(state, event) == [completed |-> FALSE, state |-> state, event |-> event]
Completed(event) == [completed |-> TRUE, state |-> None, event |-> event]

(* send_command.rs: CommandState::finish_sending *)
CommandFinishSending(state) ==
    IF state.activity.name = "WaitingForFragmentsSent"
    THEN IF state.activity.data.some
         THEN Uncompleted([state EXCEPT !.activity.name = "WaitingForLiteralAccepted"],
                          NoEvent)
         ELSE Completed(Event("Command", state.handle))
    ELSE Uncompleted(state, NoEvent)

\* Mutant of AuthenticateFinishSending: every flushed line of the dialogue
\* reports the command as started.
AuthenticateFinishSendingEveryRound(state) ==
    CASE state.activity.name \in {"WaitingForAuthenticateSent",
                                  "WaitingForAuthenticateDataSent"} ->
            Uncompleted([state EXCEPT !.activity.name = "WaitingForAuthenticateResponse"],
                        Event("CommandAuthenticate", state.handle))
      [] OTHER -> Uncompleted(state, NoEvent)

\* Mutant of AuthenticateFinishSending: the command is completed when its
\* authenticate data is flushed.
AuthenticateFinishSendingCompletes(state) ==
    CASE state.activity.name = "WaitingForAuthenticateSent" ->
            Uncompleted([state EXCEPT !.activity.name = "WaitingForAuthenticateResponse"],
                        Event("CommandAuthenticate", state.handle))
      [] state.activity.name = "WaitingForAuthenticateDataSent" ->
            Completed(Event("Command", state.handle))
      [] OTHER -> Uncompleted(state, NoEvent)

(* send_command.rs: AuthenticateState::finish_sending *)
AuthenticateFinishSending(state) ==
    CASE state.activity.name = "WaitingForAuthenticateSent" ->
            Uncompleted([state EXCEPT !.activity.name = "WaitingForAuthenticateResponse"],
                        Event("CommandAuthenticate", state.handle))
      [] state.activity.name = "WaitingForAuthenticateDataSent" ->
            Uncompleted([state EXCEPT !.activity.name = "WaitingForAuthenticateResponse"],
                        NoEvent)
      [] OTHER -> Uncompleted(state, NoEvent)

\* Mutant of IdleFinishSending: the flushed DONE does not complete the command.
IdleFinishSendingNeverDone(state) ==
    CASE state.activity.name = "WaitingForIdleSent" ->
            Uncompleted([state EXCEPT !.activity.name = "WaitingForIdleResponse"],
                        Event("CommandIdle", state.handle))
      [] OTHER -> Uncompleted(state, NoEvent)

(* send_command.rs: IdleState::finish_sending *)
IdleFinishSending(state) ==
    CASE state.activity.name = "WaitingForIdleSent" ->
            Uncompleted([state EXCEPT !.activity.name = "WaitingForIdleResponse"],
                        Event("CommandIdle", state.handle))
      [] state.activity.name = "WaitingForIdleDoneSent" ->
            Completed(Event("IdleDone", state.handle))
      [] OTHER -> Uncompleted(state, NoEvent)

(* send_command.rs: CurrentCommand::finish_sending *)
FinishSending(current) ==
    CASE current.kind = "Command"      -> CommandFinishSending(current)
      [] current.kind = "Authenticate" -> AuthenticateFinishSending(current)
      [] OTHER                         -> IdleFinishSending(current)

Emit(event) == IF event = NoEvent THEN events ELSE Append(events, event)

----------------------------------------------------------------------------
(* send_command.rs: the operations of SendCommandState *)

\* Mutant of Enqueue: the command goes to the front of the queue.
EnqueueFront(body) ==
    /\ engine = "command" /\ pc \in IdlePcs
    /\ next_handle <= MaxCmds
    /\ queued_commands' =
            <<[handle |-> next_handle,
               command |-> [tag |-> TagOf(next_handle), body |-> body]]>>
                \o queued_commands
    /\ enqueued' = Append(enqueued, [tag |-> TagOf(next_handle), body |-> body])
    /\ next_handle' = next_handle + 1
    /\ UNCHANGED <<sendState, respState, serverState, schedState>>
    /\ pc' = "idle"
    /\ UNCHANGED <<engine, write_buffer, wire, events, continued, current_command>>

(* ClientFlow::enqueue_command generates the handle, SendCommandState::enqueue
   pushes the command to the back of the queue. *)
Enqueue(body) ==
    /\ engine = "command" /\ pc \in IdlePcs
    /\ next_handle <= MaxCmds
    /\ queued_commands' = Append(queued_commands,
            [handle |-> next_handle,
             command |-> [tag |-> TagOf(next_handle), body |-> body]])
    /\ enqueued' = Append(enqueued, [tag |-> TagOf(next_handle), body |-> body])
    /\ next_handle' = next_handle + 1
    /\ UNCHANGED <<sendState, respState, serverState, schedState>>
    /\ pc' = "idle"
    /\ UNCHANGED <<engine, write_buffer, wire, events, continued, current_command>>

\* Mutant of Termination: the tag of the status is not compared.
TerminationAnyTag(current, status) ==
    IF status.type = "Tagged" /\ current # None
    THEN CASE current.kind = "Command" ->
                IF status.kind = "Bad"
                THEN Event("LiteralRejected", current.handle) ELSE NoEvent
           [] current.kind = "Authenticate" ->
                IF status.kind = "Ok"
                THEN Event("AuthenticateAccepted", current.handle)
                ELSE Event("AuthenticateRejected", current.handle)
           [] OTHER -> Event("IdleRejected", current.handle)
    ELSE NoEvent

\* Mutant of Termination: an IDLE command is only rejected by a tagged NO.
TerminationIdleNoOnly(current, status) ==
    IF status.type = "Tagged" /\ current # None /\ status.tag = current.command.tag
    THEN CASE current.kind = "Command" ->
                IF status.kind = "Bad"
                THEN Event("LiteralRejected", current.handle) ELSE NoEvent
           [] current.kind = "Authenticate" ->
                IF status.kind = "Ok"
                THEN Event("AuthenticateAccepted", current.handle)
                ELSE Event("AuthenticateRejected", current.handle)
           [] OTHER ->
                IF status.kind = "No"
                THEN Event("IdleRejected", current.handle) ELSE NoEvent
    ELSE NoEvent

(* The termination maybe_remove decides on, NoEvent when the command stays. *)
Termination(current, status) ==
    IF status.type = "Tagged" /\ current # None /\ status.tag = current.command.tag
    THEN CASE current.kind = "Command" ->
                IF status.kind = "Bad"
                THEN Event("LiteralRejected", current.handle) ELSE NoEvent
           [] current.kind = "Authenticate" ->
                IF status.kind = "Ok"
                THEN Event("AuthenticateAccepted", current.handle)
                ELSE Event("AuthenticateRejected", current.handle)
           [] OTHER -> Event("IdleRejected", current.handle)
    ELSE NoEvent

(* The command a termination carries: state.command of LiteralRejected,
   state.command_authenticate of AuthenticateAccepted and
   AuthenticateRejected; IdleRejected carries the handle only. *)
TerminationCommand(current, status) ==
    IF Termination(current, status) = NoEvent \/ current.kind = "Idle"
    THEN None
    ELSE current.command

\* Mutant of MaybeRemove: the termination is returned, the command stays.
MaybeRemoveKeepsCurrent(status) ==
    /\ engine = "command" /\ pc \in IdlePcs
    /\ events' = Emit(Termination(current_command, status))
    /\ pc' = "idle"
    /\ UNCHANGED <<sendState, respState, serverState, schedState>>
    /\ UNCHANGED <<engine, write_buffer, wire, next_handle, enqueued, continued,
                   cmdState>>

(* send_command.rs: SendCommandState::maybe_remove *)
MaybeRemove(status) ==
    /\ engine = "command" /\ pc \in IdlePcs
    /\ LET termination == Termination(current_command, status) IN
       /\ current_command' = IF termination = NoEvent THEN current_command ELSE None
       /\ events' = Emit(termination)
    /\ UNCHANGED <<sendState, respState, serverState, schedState>>
    /\ pc' = "idle"
    /\ UNCHANGED <<engine, write_buffer, wire, next_handle, enqueued, continued,
                   queued_commands>>

LiteralContinueOk(current) ==
    /\ current # None
    /\ current.kind = "Command"
    /\ current.activity.name = "WaitingForLiteralAccepted"

\* Mutant of LiteralContinue: the literal in limbo is dropped.
LiteralContinueDropsLiteral ==
    /\ engine = "command" /\ pc \in IdlePcs
    /\ IF LiteralContinueOk(current_command)
       THEN /\ current_command' =
                    [current_command EXCEPT !.activity =
                        [name |-> "PushingFragments", data |-> NoData]]
            /\ continued' = Append(continued, current_command.activity.data.data[1])
       ELSE UNCHANGED <<current_command, continued>>
    /\ UNCHANGED <<sendState, respState, serverState, schedState>>
    /\ pc' = "idle"
    /\ UNCHANGED <<engine, write_buffer, wire, events, next_handle, enqueued,
                   queued_commands>>

(* send_command.rs: SendCommandState::literal_continue; a call that returns
   true is recorded in continued. *)
LiteralContinue ==
    /\ engine = "command" /\ pc \in IdlePcs
    /\ IF LiteralContinueOk(current_command)
       THEN /\ current_command' =
                    [current_command EXCEPT !.activity.name = "PushingFragments"]
            /\ continued' = Append(continued, current_command.activity.data.data[1])
       ELSE UNCHANGED <<current_command, continued>>
    /\ UNCHANGED <<sendState, respState, serverState, schedState>>
    /\ pc' = "idle"
    /\ UNCHANGED <<engine, write_buffer, wire, events, next_handle, enqueued,
                   queued_commands>>

AuthenticateContinueOk(current) ==
    /\ current # None
    /\ current.kind = "Authenticate"
    /\ current.activity.name = "WaitingForAuthenticateResponse"

AuthenticateContinue ==
    /\ engine = "command" /\ pc \in IdlePcs
    /\ current_command' =
            IF AuthenticateContinueOk(current_command)
            THEN [current_command EXCEPT !.activity.name = "WaitingForAuthenticateDataSet"]
            ELSE current_command
    /\ UNCHANGED <<sendState, respState, serverState, schedState>>
    /\ pc' = "idle"
    /\ UNCHANGED <<engine, write_buffer, wire, events, next_handle, enqueued,
                   continued, queued_commands>>

\* Mutant of SetAuthenticateDataOk: the continuation request is not waited for.
SetAuthenticateDataOkWithoutContinue(current) ==
    /\ current # None
    /\ current.kind = "Authenticate"
    /\ current.activity.name \in
            {"WaitingForAuthenticateResponse", "WaitingForAuthenticateDataSet"}

SetAuthenticateDataOk(current) ==
    /\ current # None
    /\ current.kind = "Authenticate"
    /\ current.activity.name = "WaitingForAuthenticateDataSet"

\* Rounds of authenticate data already given for the command with this handle.
AuthRounds(h) ==
    Cardinality({f \in 1..MaxAuthRounds + 1 :
        \E k \in 1..Len(wire) : wire[k].h = h /\ wire[k].f = AuthDataFrag(f)})

SetAuthenticateData ==
    /\ engine = "command" /\ pc \in IdlePcs
    /\ IF SetAuthenticateDataOk(current_command)
       THEN /\ AuthRounds(current_command.handle) < MaxAuthRounds
            /\ current_command' = [current_command EXCEPT !.activity =
                    [name |-> "PushingAuthenticateData",
                     data |-> SomeData(Bytes(current_command.handle,
                                AuthDataFrag(AuthRounds(current_command.handle) + 1)))]]
       ELSE UNCHANGED current_command
    /\ UNCHANGED <<sendState, respState, serverState, schedState>>
    /\ pc' = "idle"
    /\ UNCHANGED <<engine, write_buffer, wire, events, next_handle, enqueued,
                   continued, queued_commands>>

IdleContinueOk(current) ==
    /\ current # None
    /\ current.kind = "Idle"
    /\ current.activity.name = "WaitingForIdleResponse"

IdleContinue ==
    /\ engine = "command" /\ pc \in IdlePcs
    /\ current_command' =
            IF IdleContinueOk(current_command)
            THEN [current_command EXCEPT !.activity.name = "WaitingForIdleDoneSet"]
            ELSE current_command
    /\ UNCHANGED <<sendState, respState, serverState, schedState>>
    /\ pc' = "idle"
    /\ UNCHANGED <<engine, write_buffer, wire, events, next_handle, enqueued,
                   continued, queued_commands>>

\* Mutant of SetIdleDoneOk: the continuation request is not waited for.
SetIdleDoneOkWithoutContinue(current) ==
    /\ current # None
    /\ current.kind = "Idle"
    /\ current.activity.name \in {"WaitingForIdleResponse", "WaitingForIdleDoneSet"}

SetIdleDoneOk(current) ==
    /\ current # None
    /\ current.kind = "Idle"
    /\ current.activity.name = "WaitingForIdleDoneSet"

SetIdleDone ==
    /\ engine = "command" /\ pc \in IdlePcs
    /\ current_command' =
            IF SetIdleDoneOk(current_command)
            THEN [current_command EXCEPT !.activity =
                    [name |-> "PushingIdleDone",
                     data |-> SomeData(Bytes(current_command.handle, IdleDoneFrag))]]
            ELSE current_command
    /\ UNCHANGED <<sendState, respState, serverState, schedState>>
    /\ pc' = "idle"
    /\ UNCHANGED <<engine, write_buffer, wire, events, next_handle, enqueued,
                   continued, queued_commands>>

\* Mutant of ProgressBegin: a current command that is not pushing is set aside
\* for the head of the queue.
ProgressBeginStartsNext ==
    /\ engine = "command" /\ pc \in IdlePcs
    /\ current_command # None \/ queued_commands # <<>>
    /\ LET resume == /\ current_command # None
                     /\ \/ queued_commands = <<>>
                        \/ current_command.activity.name \in
                                {"PushingFragments", "WaitingForFragmentsSent"}
           current == IF resume THEN current_command
                      ELSE Start(Head(queued_commands))
           pushed == PushToBuffer(current, write_buffer)
       IN  /\ queued_commands' = IF resume THEN queued_commands
                                 ELSE Tail(queued_commands)
           /\ current_command' = pushed.state
           /\ write_buffer' = pushed.buffer
    /\ pc' = "writing"
    /\ UNCHANGED <<sendState, respState, serverState, schedState>>
    /\ UNCHANGED <<engine, wire, events, next_handle, enqueued, continued>>

\* Mutant of ProgressBegin: the command is stored back as it was before
\* push_to_buffer.
ProgressBeginKeepsActivity ==
    /\ engine = "command" /\ pc \in IdlePcs
    /\ current_command # None \/ queued_commands # <<>>
    /\ LET current == IF current_command # None
                      THEN current_command
                      ELSE Start(Head(queued_commands))
           pushed == PushToBuffer(current, write_buffer)
       IN  /\ queued_commands' = IF current_command # None
                                 THEN queued_commands
                                 ELSE Tail(queued_commands)
           /\ current_command' = current
           /\ write_buffer' = pushed.buffer
    /\ pc' = "writing"
    /\ UNCHANGED <<sendState, respState, serverState, schedState>>
    /\ UNCHANGED <<engine, wire, events, next_handle, enqueued, continued>>

(* send_command.rs: SendCommandState::progress up to the await of write_all:
   take the current command or start the head of the queue, push to the
   buffer, store the command back. *)
ProgressBegin ==
    /\ engine = "command" /\ pc \in IdlePcs
    /\ current_command # None \/ queued_commands # <<>>
    /\ LET current == IF current_command # None
                      THEN current_command
                      ELSE Start(Head(queued_commands))
           pushed == PushToBuffer(current, write_buffer)
       IN  /\ queued_commands' = IF current_command # None
                                 THEN queued_commands
                                 ELSE Tail(queued_commands)
           /\ current_command' = pushed.state
           /\ write_buffer' = pushed.buffer
    /\ pc' = "writing"
    /\ UNCHANGED <<sendState, respState, serverState, schedState>>
    /\ UNCHANGED <<engine, wire, events, next_handle, enqueued, continued>>

(* stream.write_all: the stream takes some of the buffered bytes. *)
WriteSome(n) ==
    /\ pc \in WritingPcs
    /\ n \in 1..Len(write_buffer)
    /\ wire' = wire \o SubSeq(write_buffer, 1, n)
    /\ write_buffer' = SubSeq(write_buffer, n + 1, Len(write_buffer))
    /\ UNCHANGED <<engine, pc, events, next_handle, enqueued, continued,
                   cmdState, sendState, respState, serverState, schedState>>

(* The progress future is dropped while write_all is pending. *)
Cancel ==
    /\ pc \in WritingPcs
    /\ pc' = IF pc = "writing" THEN "cancelled" ELSE "cancelled_blocked"
    /\ UNCHANGED <<engine, write_buffer, wire, events, next_handle, enqueued,
                   continued, cmdState, sendState, respState, serverState, schedState>>

(* progress after write_all returned: finish_sending decides the event. *)
ProgressEnd ==
    /\ engine = "command" /\ pc = "writing"
    /\ write_buffer = <<>>
    /\ LET result == FinishSending(current_command) IN
       /\ current_command' = result.state
       /\ events' = Emit(result.event)
    /\ pc' = "idle"
    /\ UNCHANGED <<sendState, respState, serverState, schedState>>
    /\ UNCHANGED <<engine, write_buffer, wire, next_handle, enqueued, continued,
                   queued_commands>>

----------------------------------------------------------------------------
(* send.rs: the older client engine, SendCommandState<K> *)

NoReason == [name |-> "None", received_continue |-> FALSE, data |-> NoData]
WaitForLiteralAck(data, received_continue) ==
    [name |-> "WaitForLiteralAck", received_continue |-> received_continue,
     data |-> SomeData(data)]
WaitForAuthenticateData(received_continue, data) ==
    [name |-> "WaitForAuthenticateData", received_continue |-> received_continue,
     data |-> data]

(* send.rs: SendCommandState::enqueue encodes the command when it is enqueued;
   every body but AUTHENTICATE is a regular command. *)
SendEnqueue(body) ==
    /\ engine = "send" /\ pc \in IdlePcs
    /\ next_handle <= MaxCmds
    /\ send_queue' = Append(send_queue,
            [key |-> next_handle,
             kind |-> [type |-> IF body = "Authenticate" THEN "Authenticate" ELSE "Regular",
                       command |-> [tag |-> TagOf(next_handle), body |-> body],
                       started |-> FALSE],
             fragments |-> Encode(next_handle, body)])
    /\ enqueued' = Append(enqueued, [tag |-> TagOf(next_handle), body |-> body])
    /\ next_handle' = next_handle + 1
    /\ UNCHANGED <<respState, serverState, schedState>>
    /\ pc' = "idle"
    /\ UNCHANGED <<engine, write_buffer, wire, events, continued, cmdState,
                   send_progress>>

\* Mutant of SendRemoveCommandInProgress: the write buffer is not cleared.
SendRemoveCommandInProgressKeepsBuffer ==
    /\ engine = "send" /\ pc \in IdlePcs
    /\ send_progress' = None
    /\ events' = IF send_progress = None THEN events
                 ELSE Append(events, Event("Removed", send_progress.key))
    /\ UNCHANGED <<respState, serverState, schedState>>
    /\ pc' = "idle"
    /\ UNCHANGED <<engine, write_buffer, wire, next_handle, enqueued, continued,
                   cmdState, send_queue>>

(* send.rs: SendCommandState::remove_command_in_progress *)
SendRemoveCommandInProgress ==
    /\ engine = "send" /\ pc \in IdlePcs
    /\ write_buffer' = <<>>
    /\ send_progress' = None
    /\ events' = IF send_progress = None THEN events
                 ELSE Append(events, Event("Removed", send_progress.key))
    /\ UNCHANGED <<respState, serverState, schedState>>
    /\ pc' = "idle"
    /\ UNCHANGED <<engine, wire, next_handle, enqueued, continued, cmdState,
                   send_queue>>

SendContinueLiteralOk(progress) ==
    /\ progress # None
    /\ progress.blocked_reason.name = "WaitForLiteralAck"
    /\ ~progress.blocked_reason.received_continue

(* send.rs: SendCommandState::continue_literal *)
SendContinueLiteral ==
    /\ engine = "send" /\ pc \in IdlePcs
    /\ IF SendContinueLiteralOk(send_progress)
       THEN /\ send_progress' =
                    [send_progress EXCEPT !.blocked_reason.received_continue = TRUE]
            /\ continued' = Append(continued, send_progress.blocked_reason.data.data[1])
       ELSE UNCHANGED <<send_progress, continued>>
    /\ UNCHANGED <<respState, serverState, schedState>>
    /\ pc' = "idle"
    /\ UNCHANGED <<engine, write_buffer, wire, events, next_handle, enqueued,
                   cmdState, send_queue>>

\* Mutant of SendContinueAuthenticateOk: a continuation request is taken again
\* while the first one is not used up.
SendContinueAuthenticateOkAgain(progress) ==
    /\ progress # None
    /\ progress.blocked_reason.name = "WaitForAuthenticateData"

SendContinueAuthenticateOk(progress) ==
    /\ progress # None
    /\ progress.blocked_reason.name = "WaitForAuthenticateData"
    /\ ~progress.blocked_reason.received_continue

(* send.rs: SendCommandState::continue_authenticate *)
SendContinueAuthenticate ==
    /\ engine = "send" /\ pc \in IdlePcs
    /\ send_progress' =
            IF SendContinueAuthenticateOk(send_progress)
            THEN [send_progress EXCEPT !.blocked_reason.received_continue = TRUE]
            ELSE send_progress
    /\ UNCHANGED <<respState, serverState, schedState>>
    /\ pc' = "idle"
    /\ UNCHANGED <<engine, write_buffer, wire, events, next_handle, enqueued,
                   continued, cmdState, send_queue>>

SendContinueAuthenticateWithDataOk(progress) ==
    /\ progress # None
    /\ progress.blocked_reason.name = "WaitForAuthenticateData"
    /\ progress.blocked_reason.received_continue
    /\ ~progress.blocked_reason.data.some

(* send.rs: SendCommandState::continue_authenticate_with_data *)
SendContinueAuthenticateWithData ==
    /\ engine = "send" /\ pc \in IdlePcs
    /\ IF SendContinueAuthenticateWithDataOk(send_progress)
       THEN /\ AuthRounds(send_progress.key) < MaxAuthRounds
            /\ send_progress' = [send_progress EXCEPT !.blocked_reason.data =
                    SomeData(AuthRounds(send_progress.key) + 1)]
       ELSE UNCHANGED send_progress
    /\ UNCHANGED <<respState, serverState, schedState>>
    /\ pc' = "idle"
    /\ UNCHANGED <<engine, write_buffer, wire, events, next_handle, enqueued,
                   continued, cmdState, send_queue>>

(* send.rs: the fragment loop of SendCommandState::progress; every literal,
   whatever its mode, stops the loop. *)
RECURSIVE SendPushFragments(_, _)
SendPushFragments(fragments, buf) ==
    IF fragments = <<>>
    THEN [fragments |-> <<>>, buffer |-> buf, blocked_reason |-> NoReason,
          need_continue |-> FALSE]
    ELSE LET fragment == Head(fragments) IN
         IF fragment.type = "Literal"
         THEN [fragments |-> Tail(fragments), buffer |-> buf,
               blocked_reason |-> WaitForLiteralAck(fragment.data, FALSE),
               need_continue |-> TRUE]
         ELSE SendPushFragments(Tail(fragments), buf \o fragment.data)

\* The progress record progress works on: the stored one or the queue head.
SendTakeProgress ==
    IF send_progress # None
    THEN send_progress
    ELSE [key |-> Head(send_queue).key, kind |-> Head(send_queue).kind,
          blocked_reason |-> NoReason, next_fragments |-> Head(send_queue).fragments]

\* The blocked reason makes progress return before the fragment loop.
SendStillBlocked(progress) ==
    \/ /\ progress.blocked_reason.name = "WaitForLiteralAck"
       /\ ~progress.blocked_reason.received_continue
    \/ /\ progress.blocked_reason.name = "WaitForAuthenticateData"
       /\ ~progress.blocked_reason.data.some

(* send.rs: SendCommandState::progress up to its await of write_all *)
SendProgressBegin ==
    /\ engine = "send" /\ pc \in IdlePcs
    /\ send_progress # None \/ send_queue # <<>>
    /\ LET progress == SendTakeProgress
           reason == progress.blocked_reason
       IN  /\ send_queue' = IF send_progress # None THEN send_queue ELSE Tail(send_queue)
           /\ IF SendStillBlocked(progress)
              THEN /\ send_progress' = progress
                   /\ write_buffer' = write_buffer
                   /\ pc' = IF reason.name = "WaitForLiteralAck" THEN "flushing" ELSE "idle"
              ELSE LET buf == IF reason.name = "WaitForLiteralAck"
                              THEN write_buffer \o reason.data.data
                              ELSE write_buffer
                       fragments ==
                           IF reason.name = "WaitForAuthenticateData"
                           THEN Append(progress.next_fragments,
                                       Line(progress.key, AuthDataFrag(reason.data.data)))
                           ELSE progress.next_fragments
                       pushed == SendPushFragments(fragments, buf)
                   IN  /\ send_progress' =
                            [progress EXCEPT !.blocked_reason = pushed.blocked_reason,
                                             !.next_fragments = pushed.fragments]
                       /\ write_buffer' = pushed.buffer
                       /\ pc' = IF pushed.need_continue
                                THEN "writing_need_continue" ELSE "writing"
    /\ UNCHANGED <<respState, serverState, schedState>>
    /\ UNCHANGED <<engine, wire, events, next_handle, enqueued, continued, cmdState>>

(* send.rs: SendCommandState::progress after write_all returned *)
SendProgressEnd ==
    /\ engine = "send" /\ pc \in WritingPcs
    /\ write_buffer = <<>>
    /\ pc' = "idle"
    /\ IF pc = "writing" /\ send_progress # None
       THEN IF send_progress.kind.type = "Regular"
            THEN /\ send_progress' = None
                 /\ events' = Append(events, Event("CommandSent", send_progress.key))
            ELSE /\ send_progress' =
                        [send_progress EXCEPT
                            !.kind.started = TRUE,
                            !.blocked_reason = WaitForAuthenticateData(FALSE, NoData)]
                 /\ events' = IF send_progress.kind.started THEN events
                              ELSE Append(events, Event("CommandAuthenticateStarted",
                                                        send_progress.key))
       ELSE UNCHANGED <<send_progress, events>>
    /\ UNCHANGED <<respState, serverState, schedState>>
    /\ UNCHANGED <<engine, write_buffer, wire, next_handle, enqueued, continued,
                   cmdState, send_queue>>

----------------------------------------------------------------------------
(* Responses *)

NoHandle == 0

ResponseBodies == {"Plain", "WithLiteral"}

\* codec.encode(&response): a response is one line, or a line that announces a
\* literal, the literal and a closing line.  id is the response's place in the
\* enqueue order.
EncodeResponse(response) ==
    IF response.body = "WithLiteral"
    THEN <<Line(response.id, 1), Literal(response.id, 2, "NonSync"), Line(response.id, 3)>>
    ELSE <<Line(response.id, 1)>>

Response(type, body, tag) ==
    [type |-> type, body |-> body, tag |-> tag, id |-> Len(enqueued) + 1]

\* All fragments of a response go to the buffer, literals included.
RECURSIVE PushAll(_, _)
PushAll(fragments, buf) ==
    IF fragments = <<>> THEN buf
    ELSE PushAll(Tail(fragments), buf \o Head(fragments).data)

----------------------------------------------------------------------------
(* send_response.rs: SendResponseState<C> *)

(* send_response.rs: SendResponseState::enqueue; the handle is None for a
   response the server creates itself. *)
RespEnqueue(internal, body) ==
    /\ engine = "response" /\ pc \in IdlePcs
    /\ Len(enqueued) < MaxResponses
    /\ LET handle == IF internal THEN NoHandle ELSE next_handle
           response == Response("Data", body, 0)
       IN  /\ queued_responses' = Append(queued_responses,
                                         [handle |-> handle, response |-> response])
           /\ enqueued' = Append(enqueued, [handle |-> handle, response |-> response])
    /\ next_handle' = IF internal THEN next_handle ELSE next_handle + 1
    /\ pc' = "idle"
    /\ UNCHANGED <<engine, write_buffer, wire, events, continued, cmdState,
                   sendState, current_response, serverState, schedState>>

(* send_response.rs: QueuedResponse::push_to_buffer *)
RespPushToBuffer(queued, buf) ==
    [state |-> [handle |-> queued.handle, response |-> queued.response],
     buffer |-> PushAll(EncodeResponse(queued.response), buf)]

\* Mutant of RespProgressBegin: the response in flight is not stored before
\* the await.
RespProgressBeginStoresLate ==
    /\ engine = "response" /\ pc \in IdlePcs
    /\ current_response = None /\ write_buffer = <<>>
    /\ queued_responses # <<>>
    /\ LET pushed == RespPushToBuffer(Head(queued_responses), write_buffer) IN
       /\ queued_responses' = Tail(queued_responses)
       /\ current_response' = None
       /\ write_buffer' = pushed.buffer
    /\ pc' = "writing"
    /\ UNCHANGED <<engine, wire, events, next_handle, enqueued, continued, cmdState,
                   sendState, serverState, schedState>>

(* send_response.rs: SendResponseState::progress up to the await of write_all.
   Without a response in flight the write buffer is asserted to be empty
   before the queue is looked at; the failed assertion is pc = "panicked". *)
RespProgressBegin ==
    /\ engine = "response" /\ pc \in IdlePcs
    /\ (current_response # None \/ queued_responses # <<>> \/ write_buffer # <<>>)
    /\ IF current_response # None
       THEN /\ pc' = "writing"
            /\ UNCHANGED <<queued_responses, current_response, write_buffer>>
       ELSE IF write_buffer # <<>>
            THEN /\ pc' = "panicked"
                 /\ UNCHANGED <<queued_responses, current_response, write_buffer>>
            ELSE LET pushed == RespPushToBuffer(Head(queued_responses), write_buffer) IN
                 /\ queued_responses' = Tail(queued_responses)
                 /\ current_response' = pushed.state
                 /\ write_buffer' = pushed.buffer
                 /\ pc' = "writing"
    /\ UNCHANGED <<engine, wire, events, next_handle, enqueued, continued, cmdState,
                   sendState, serverState, schedState>>

(* send_response.rs: SendResponseState::progress, `write_all(..).await?`: the
   stream fails, progress returns the error and leaves the response in flight
   and the unwritten bytes where they are, as a dropped future does. *)
RespStreamError ==
    /\ engine = "response" /\ pc = "writing"
    /\ write_buffer # <<>>
    /\ pc' = "cancelled"
    /\ UNCHANGED <<engine, write_buffer, wire, events, next_handle, enqueued,
                   continued, cmdState, sendState, respState, serverState, schedState>>

(* send_response.rs: SendResponseState::progress after write_all returned *)
RespProgressEnd ==
    /\ engine = "response" /\ pc = "writing"
    /\ write_buffer = <<>>
    /\ events' = Append(events, Event("ResponseSent", current_response.handle))
    /\ current_response' = None
    /\ pc' = "idle"
    /\ UNCHANGED <<engine, write_buffer, wire, next_handle, enqueued, continued,
                   cmdState, sendState, queued_responses, serverState, schedState>>

----------------------------------------------------------------------------
(* server.rs: ServerFlow over send.rs SendResponseState<C, K> *)

\* ServerFlowOptions::max_literal_size, set small.
max_literal_size == 2

LiteralLengths == {max_literal_size - 1, max_literal_size, max_literal_size + 1}

\* Mutant of SendResponseEnqueue: a response without a handle is not queued.
SendResponseEnqueueDropsInternal(key, response) ==
    /\ send_queue' = IF key = NoHandle THEN send_queue
                      ELSE Append(send_queue,
                              [key |-> key, response |-> response,
                               fragments |-> EncodeResponse(response)])
    /\ enqueued' = Append(enqueued, [handle |-> key, response |-> response])

(* send.rs: SendResponseState::enqueue encodes the response when it is enqueued. *)
SendResponseEnqueue(key, response) ==
    /\ send_queue' = Append(send_queue,
            [key |-> key, response |-> response, fragments |-> EncodeResponse(response)])
    /\ enqueued' = Append(enqueued, [handle |-> key, response |-> response])

(* server.rs: ServerFlow::enqueue_data / enqueue_status / enqueue_continuation.
   The three do the same with their response; a Data response is the one
   taken with a literal, a Status and a continuation request are one line. *)
ServerEnqueue(type, body) ==
    /\ engine = "server" /\ pc \in IdlePcs
    /\ Len(enqueued) < MaxResponses
    /\ type = "Data" <=> body = "WithLiteral"
    /\ SendResponseEnqueue(next_handle, Response(type, body, 0))
    /\ next_handle' = next_handle + 1
    /\ pc' = "idle"
    /\ UNCHANGED <<engine, write_buffer, wire, events, continued, cmdState,
                   send_progress, respState, serverState, schedState>>

\* Mutant of ChangeState: the codec of the receive state is not changed.
ChangeStateKeepsCodec(old_state, next) ==
    IF old_state = "Dummy" THEN "Unreachable" ELSE old_state

(* server.rs: ServerReceiveState::change_state *)
ChangeState(old_state, next) ==
    IF old_state = "Dummy" THEN "Unreachable" ELSE next

\* Mutant of ServerAuthenticateContinue: the receive state is not looked at.
ServerAuthenticateContinueAnyState ==
    /\ engine = "server" /\ pc \in IdlePcs
    /\ Len(enqueued) < MaxResponses
    /\ SendResponseEnqueue(next_handle, Response("Continuation", "Plain", 0))
    /\ next_handle' = next_handle + 1
    /\ pc' = "idle"
    /\ UNCHANGED <<engine, write_buffer, wire, events, continued, cmdState,
                   send_progress, respState, serverState, schedState>>

(* server.rs: ServerFlow::authenticate_continue *)
ServerAuthenticateContinue ==
    /\ engine = "server" /\ pc \in IdlePcs
    /\ IF receive_command_state = "AuthenticateData"
       THEN /\ Len(enqueued) < MaxResponses
            /\ SendResponseEnqueue(next_handle, Response("Continuation", "Plain", 0))
            /\ next_handle' = next_handle + 1
       ELSE UNCHANGED <<send_queue, enqueued, next_handle>>
    /\ pc' = "idle"
    /\ UNCHANGED <<engine, write_buffer, wire, events, continued, cmdState,
                   send_progress, respState, serverState, schedState>>

\* Mutant of ServerAuthenticateFinish: the receive state is left as it is.
ServerAuthenticateFinishKeepsState ==
    /\ engine = "server" /\ pc \in IdlePcs
    /\ IF receive_command_state = "AuthenticateData"
       THEN /\ Len(enqueued) < MaxResponses
            /\ SendResponseEnqueue(next_handle, Response("Status", "Plain", 0))
            /\ next_handle' = next_handle + 1
       ELSE UNCHANGED <<send_queue, enqueued, next_handle>>
    /\ pc' = "idle"
    /\ UNCHANGED <<engine, write_buffer, wire, events, continued, cmdState,
                   send_progress, respState, serverState, schedState>>

(* server.rs: ServerFlow::authenticate_finish *)
ServerAuthenticateFinish ==
    /\ engine = "server" /\ pc \in IdlePcs
    /\ IF receive_command_state = "AuthenticateData"
       THEN /\ Len(enqueued) < MaxResponses
            /\ SendResponseEnqueue(next_handle, Response("Status", "Plain", 0))
            /\ next_handle' = next_handle + 1
            /\ next_expected_message' = "Command"
            /\ receive_command_state' = ChangeState(receive_command_state, "Command")
       ELSE UNCHANGED <<send_queue, enqueued, next_handle, next_expected_message,
                        receive_command_state>>
    /\ pc' = "idle"
    /\ UNCHANGED <<engine, write_buffer, wire, events, continued, cmdState,
                   send_progress, respState, received, receive_call, schedState>>

\* Mutant of ServerProgressSendBegin: the response in flight is not stored
\* before the await.
ServerProgressSendBeginStoresLate ==
    /\ engine = "server" /\ pc \in IdlePcs \cup {"send"}
    /\ IF send_queue = <<>>
       THEN /\ pc' = IF write_buffer = <<>> THEN "receiving" ELSE "writing"
            /\ UNCHANGED <<send_queue, send_progress, write_buffer>>
       ELSE /\ send_queue' = Tail(send_queue)
            /\ write_buffer' = PushAll(Head(send_queue).fragments, write_buffer)
            /\ send_progress' = None
            /\ pc' = "writing"
    /\ UNCHANGED <<engine, wire, events, next_handle, enqueued, continued, cmdState,
                   respState, serverState, schedState>>

(* server.rs: ServerFlow::progress, first half of the loop: progress_send up to
   the await of write_all in send.rs SendResponseState::progress.  With nothing
   to send progress_send returns None and progress goes on to progress_receive. *)
ServerProgressSendBegin ==
    /\ engine = "server" /\ pc \in IdlePcs \cup {"send"}
    /\ IF send_progress # None
       THEN /\ pc' = "writing"
            /\ UNCHANGED <<send_queue, send_progress, write_buffer>>
       ELSE IF send_queue = <<>>
            THEN /\ pc' = "receiving"
                 /\ UNCHANGED <<send_queue, send_progress, write_buffer>>
            ELSE /\ send_queue' = Tail(send_queue)
                 /\ write_buffer' = PushAll(Head(send_queue).fragments, write_buffer)
                 /\ send_progress' = [key |-> Head(send_queue).key,
                                      response |-> Head(send_queue).response]
                 /\ pc' = "writing"
    /\ UNCHANGED <<engine, wire, events, next_handle, enqueued, continued, cmdState,
                   respState, serverState, schedState>>

\* Mutant of ServerProgressSendEnd: internal responses are reported too.
ServerProgressSendEndReportsAll ==
    /\ engine = "server" /\ pc = "writing"
    /\ write_buffer = <<>>
    /\ send_progress' = None
    /\ IF send_progress # None
       THEN /\ events' = Append(events, Event("ResponseSent", send_progress.key))
            /\ pc' = "idle"
       ELSE /\ events' = events
            /\ pc' = "receiving"
    /\ UNCHANGED <<engine, write_buffer, wire, next_handle, enqueued, continued,
                   cmdState, send_queue, respState, serverState, schedState>>

(* server.rs: progress_send after write_all returned: a response with a handle
   is reported, an internal one is not and progress goes on to progress_receive. *)
ServerProgressSendEnd ==
    /\ engine = "server" /\ pc = "writing"
    /\ write_buffer = <<>>
    /\ send_progress' = None
    /\ IF send_progress # None /\ send_progress.key # NoHandle
       THEN /\ events' = Append(events, Event("ResponseSent", send_progress.key))
            /\ pc' = "idle"
       ELSE /\ events' = events
            /\ pc' = "receiving"
    /\ UNCHANGED <<engine, write_buffer, wire, next_handle, enqueued, continued,
                   cmdState, send_queue, respState, serverState, schedState>>

\* The calls progress_receive makes on the receive state once it has an event.
NoCall == [call |-> "none", length |-> 0]
FinishMessage == [call |-> "finish_message", length |-> 0]
DiscardMessage == [call |-> "discard_message", length |-> 0]
StartLiteral(length) == [call |-> "start_literal", length |-> length]

\* The responses progress_receive creates itself for a literal.
LiteralReject(tag) ==
    [kind |-> "No", text |-> "literal_reject_text"] @@ Response("Status", "Plain", tag)
LiteralAccept ==
    [text |-> "literal_accept_text"] @@ Response("Continuation", "Plain", 0)

\* Mutant of TooLong: a literal of exactly max_literal_size is rejected too.
TooLongAtLimit(length) == length >= max_literal_size

(* server.rs: progress_receive, `length > self.options.max_literal_size` *)
TooLong(length) == length > max_literal_size

\* What the receive state hands to progress_receive.
ReceiveEvents ==
    [type : {"DecodingSuccess"}, body : {"Noop", "Authenticate"}, tag : {1}, length : {0}]
        \cup [type : {"LiteralFound"}, body : {"Noop"}, tag : {1}, length : LiteralLengths]
        \cup [type : {"Failed", "ExpectedCrlfGotLf"}, body : {"Noop"}, tag : {0}, length : {0}]

\* Mutant of ReceiveCall: a message that cannot be decoded stays in the buffer.
ReceiveCallKeepsMalformed(ev) ==
    CASE ev.type = "DecodingSuccess" -> FinishMessage
      [] ev.type = "LiteralFound" /\ ~TooLong(ev.length) -> StartLiteral(ev.length)
      [] ev.type = "LiteralFound" -> DiscardMessage
      [] OTHER -> NoCall

(* server.rs: progress_receive, the call it makes on the receive state for
   each event: finish_message, start_literal or discard_message. *)
ReceiveCall(ev) ==
    CASE ev.type = "DecodingSuccess" -> FinishMessage
      [] ev.type = "LiteralFound" /\ ~TooLong(ev.length) -> StartLiteral(ev.length)
      [] OTHER -> DiscardMessage

(* server.rs: ServerFlow::progress_receive *)
ServerProgressReceive(ev) ==
    /\ engine = "server" /\ pc = "receiving"
    /\ received < MaxReceives
    /\ received' = received + 1
    /\ receive_command_state = "AuthenticateData" => ev.type # "LiteralFound"
    /\ ev.type = "LiteralFound" => Len(enqueued) < MaxResponses
    /\ receive_call' = ReceiveCall(ev)
    /\ CASE ev.type = "DecodingSuccess" /\ receive_command_state = "Command" ->
                IF ev.body = "Authenticate"
                THEN /\ next_expected_message' = "AuthenticateData"
                     /\ receive_command_state' =
                            ChangeState(receive_command_state, "AuthenticateData")
                     /\ events' = Append(events, Event("CommandAuthenticateReceived", 0))
                     /\ pc' = "idle"
                     /\ UNCHANGED <<send_queue, enqueued>>
                ELSE /\ events' = Append(events, Event("CommandReceived", 0))
                     /\ pc' = "idle"
                     /\ UNCHANGED <<send_queue, enqueued, next_expected_message,
                                    receive_command_state>>
         [] ev.type = "DecodingSuccess" /\ receive_command_state # "Command" ->
                /\ events' = Append(events, Event("AuthenticateDataReceived", 0))
                /\ pc' = "idle"
                /\ UNCHANGED <<send_queue, enqueued, next_expected_message,
                               receive_command_state>>
         [] ev.type = "LiteralFound" ->
                IF TooLong(ev.length)
                THEN /\ SendResponseEnqueue(NoHandle, LiteralReject(ev.tag))
                     /\ events' = Append(events, Event("LiteralTooLong", 0))
                     /\ pc' = "idle"
                     /\ UNCHANGED <<next_expected_message, receive_command_state>>
                ELSE /\ SendResponseEnqueue(NoHandle, LiteralAccept)
                     /\ pc' = "send"
                     /\ UNCHANGED <<events, next_expected_message, receive_command_state>>
         [] ev.type = "Failed" ->
                /\ events' = Append(events, Event("MalformedMessage", 0))
                /\ pc' = "idle"
                /\ UNCHANGED <<send_queue, enqueued, next_expected_message,
                               receive_command_state>>
         [] OTHER ->
                /\ events' = Append(events, Event("ExpectedCrlfGotLf", 0))
                /\ pc' = "idle"
                /\ UNCHANGED <<send_queue, enqueued, next_expected_message,
                               receive_command_state>>
    /\ UNCHANGED <<engine, write_buffer, wire, next_handle, continued, cmdState,
                   send_progress, respState, schedState>>

(* The progress future of the server is dropped while it waits for bytes. *)
ServerCancelReceive ==
    /\ engine = "server" /\ pc = "receiving"
    /\ pc' = "idle"
    /\ UNCHANGED <<write_buffer, wire, events, next_handle, enqueued, continued,
                   engine, cmdState, sendState, respState, serverState, schedState>>

----------------------------------------------------------------------------

InitVars ==
    /\ pc = "idle"
    /\ write_buffer = <<>>
    /\ wire = <<>>
    /\ events = <<>>
    /\ next_handle = 1
    /\ enqueued = <<>>
    /\ continued = <<>>
    /\ queued_commands = <<>>
    /\ current_command = None
    /\ send_queue = <<>>
    /\ send_progress = None
    /\ queued_responses = <<>>
    /\ current_response = None
    /\ next_expected_message = "Command"
    /\ receive_command_state = "Command"
    /\ received = 0
    /\ receive_call = NoCall
    /\ waiting_tasks = <<>>
    /\ active_tasks = <<>>
    /\ scheduler_events = <<>>
    /\ task_calls = <<>>
    /\ tokens = <<>>
    /\ resolved = <<>>

Engines == {"command", "send", "response", "server"}

Init == engine \in Engines /\ InitVars

Next ==
    \/ \E body \in Bodies : Enqueue(body)
    \/ \E status \in Statuses : MaybeRemove(status)
    \/ LiteralContinue
    \/ AuthenticateContinue
    \/ SetAuthenticateData
    \/ IdleContinue
    \/ SetIdleDone
    \/ ProgressBegin
    \/ \E n \in 1..Len(write_buffer) : WriteSome(n)
    \/ Cancel
    \/ ProgressEnd
    \/ \E body \in SendBodies : SendEnqueue(body)
    \/ SendRemoveCommandInProgress
    \/ SendContinueLiteral
    \/ SendContinueAuthenticate
    \/ SendContinueAuthenticateWithData
    \/ SendProgressBegin
    \/ SendProgressEnd
    \/ \E internal \in BOOLEAN, body \in ResponseBodies : RespEnqueue(internal, body)
    \/ RespProgressBegin
    \/ RespStreamError
    \/ RespProgressEnd
    \/ \E type \in {"Data", "Status", "Continuation"}, body \in ResponseBodies :
            ServerEnqueue(type, body)
    \/ ServerAuthenticateContinue
    \/ ServerAuthenticateFinish
    \/ ServerProgressSendBegin
    \/ ServerProgressSendEnd
    \/ \E ev \in ReceiveEvents : ServerProgressReceive(ev)
    \/ ServerCancelReceive

Spec == Init /\ [][Next]_vars

----------------------------------------------------------------------------
(* The server on its own, with an embedder that keeps calling progress and a
   stream that keeps accepting bytes. *)

ServerInit == engine = "server" /\ InitVars

ServerNext ==
    \/ \E type \in {"Data", "Status", "Continuation"}, body \in ResponseBodies :
            ServerEnqueue(type, body)
    \/ ServerAuthenticateContinue
    \/ ServerAuthenticateFinish
    \/ ServerProgressSendBegin
    \/ \E n \in 1..Len(write_buffer) : WriteSome(n)
    \/ Cancel
    \/ ServerProgressSendEnd
    \/ \E ev \in ReceiveEvents : ServerProgressReceive(ev)
    \/ ServerCancelReceive

\* progress is called again whenever it can be, write_all gets its bytes
\* written and returns.
ServerFairness ==
    /\ SF_vars(ServerProgressSendBegin)
    /\ SF_vars(\E n \in 1..Len(write_buffer) : WriteSome(n))
    /\ SF_vars(ServerProgressSendEnd)

ServerLiveSpec == ServerInit /\ [][ServerNext]_vars /\ ServerFairness

----------------------------------------------------------------------------
(* send_command.rs alone, with a server and a caller that answer. *)

ClientInit == engine = "command" /\ InitVars

ClientNext ==
    \/ \E body \in Bodies : Enqueue(body)
    \/ \E status \in Statuses : MaybeRemove(status)
    \/ LiteralContinue
    \/ AuthenticateContinue
    \/ SetAuthenticateData
    \/ IdleContinue
    \/ SetIdleDone
    \/ ProgressBegin
    \/ \E n \in 1..Len(write_buffer) : WriteSome(n)
    \/ Cancel
    \/ ProgressEnd

\* The current command waits for the server.  An AUTHENTICATE dialogue has at
\* most MaxAuthRounds rounds: when they are used up the server has to end it.
AwaitsServer ==
    /\ current_command # None
    /\ \/ current_command.activity.name \in
            {"WaitingForLiteralAccepted", "WaitingForAuthenticateResponse",
             "WaitingForIdleResponse"}
       \/ /\ current_command.activity.name = "WaitingForAuthenticateDataSet"
          /\ AuthRounds(current_command.handle) >= MaxAuthRounds

\* The server answers the waiting command: with the continuation request it
\* waits for, or with a tagged status that terminates it.
ServerAnswers ==
    /\ AwaitsServer
    /\ \/ LiteralContinue
       \/ AuthenticateContinue
       \/ IdleContinue
       \/ \E status \in Statuses : MaybeRemove(status)
    /\ current_command' # current_command

\* The caller gives the authenticate data or the DONE it was asked for.
CallerAnswers ==
    /\ SetAuthenticateData \/ SetIdleDone
    /\ current_command' # current_command

\* progress is called again whenever it can be, write_all gets its bytes
\* written and returns, the server and the caller answer.
ClientFairness ==
    /\ SF_vars(ProgressBegin)
    /\ SF_vars(\E n \in 1..Len(write_buffer) : WriteSome(n))
    /\ SF_vars(ProgressEnd)
    /\ SF_vars(ServerAnswers)
    /\ SF_vars(CallerAnswers)

ClientLiveSpec == ClientInit /\ [][ClientNext]_vars /\ ClientFairness

----------------------------------------------------------------------------
(* tasks/src/lib.rs: the Scheduler.  It owns a ClientFlow, which composes
   SendCommandState with the receive side: a received status goes through
   maybe_remove, a received continuation request through literal_continue,
   authenticate_continue or idle_continue, whichever the current command
   waits for. *)

MaxRouted == 1        \* responses that no command of the flow waits for

\* unwrap() on None and todo!(): the scheduler panics.
Panic == [type |-> "Panic", handle |-> 0]

Panicked ==
    /\ scheduler_events # <<>>
    /\ scheduler_events[Len(scheduler_events)] = Panic

(* lib.rs: TaskMap *)
TaskEntry(handle) == [handle |-> handle, tag |-> TagOf(handle)]

PositionByHandle(tasks, handle) ==
    IF \E k \in 1..Len(tasks) : tasks[k].handle = handle
    THEN CHOOSE k \in 1..Len(tasks) :
            /\ tasks[k].handle = handle
            /\ \A j \in 1..k - 1 : tasks[j].handle # handle
    ELSE 0

PositionByTag(tasks, tag) ==
    IF \E k \in 1..Len(tasks) : tasks[k].tag = tag
    THEN CHOOSE k \in 1..Len(tasks) :
            /\ tasks[k].tag = tag
            /\ \A j \in 1..k - 1 : tasks[j].tag # tag
    ELSE 0

RemoveAt(tasks, index) ==
    SubSeq(tasks, 1, index - 1) \o SubSeq(tasks, index + 1, Len(tasks))

\* The event of ClientFlow that an event of SendCommandState becomes.
ClientFlowEvent(event) ==
    [event EXCEPT !.type =
        CASE event.type = "Command"             -> "CommandSent"
          [] event.type = "CommandAuthenticate" -> "AuthenticateStarted"
          [] event.type = "CommandIdle"         -> "IdleCommandSent"
          [] event.type = "IdleDone"            -> "IdleDoneSent"
          [] event.type = "LiteralRejected"     -> "CommandRejected"
          [] OTHER                              -> event.type]

\* The scheduler as a record, and the step of the loop that leaves it as it is.
Scheduler ==
    [waiting |-> waiting_tasks, active |-> active_tasks,
     returned |-> scheduler_events, calls |-> task_calls]

Panics(sched) == [sched EXCEPT !.returned = Append(@, Panic)]

TaskCall(call, handle, result) == [call |-> call, handle |-> handle, result |-> result]

\* Mutant of Activate: the task is put in front of the active tasks.
ActivateFront(sched, handle) ==
    LET index == PositionByHandle(sched.waiting, handle) IN
    IF index = 0 THEN Panics(sched)
    ELSE [sched EXCEPT !.waiting = RemoveAt(@, index),
                       !.active = <<sched.waiting[index]>> \o @]

\* CommandSent and AuthenticateStarted: the task moves from waiting to active.
Activate(sched, handle) ==
    LET index == PositionByHandle(sched.waiting, handle) IN
    IF index = 0 THEN Panics(sched)
    ELSE [sched EXCEPT !.waiting = RemoveAt(@, index),
                       !.active = Append(@, sched.waiting[index])]

\* CommandRejected, AuthenticateAccepted and AuthenticateRejected: the task is
\* taken from active and finished with the body of the status.
FinishByHandle(sched, handle) ==
    LET index == PositionByHandle(sched.active, handle) IN
    IF index = 0 THEN Panics(sched)
    ELSE [sched EXCEPT !.active = RemoveAt(@, index),
                       !.calls = Append(@, TaskCall("process_tagged", handle, "Output")),
                       !.returned = Append(@, Event("TaskFinished", handle))]

\* Mutant of FinishByTag: the finished task stays in active.
FinishByTagKeepsTask(sched, tag) ==
    LET index == PositionByTag(sched.active, tag) IN
    IF index = 0
    THEN [sched EXCEPT !.returned = Append(@, Event("UnexpectedTaggedResponse", 0))]
    ELSE [sched EXCEPT
            !.calls = Append(@, TaskCall("process_tagged", sched.active[index].handle,
                                         "Output")),
            !.returned = Append(@, Event("TaskFinished", sched.active[index].handle))]

\* StatusReceived with a tagged status.
FinishByTag(sched, tag) ==
    LET index == PositionByTag(sched.active, tag) IN
    IF index = 0
    THEN [sched EXCEPT !.returned = Append(@, Event("UnexpectedTaggedResponse", 0))]
    ELSE [sched EXCEPT
            !.active = RemoveAt(@, index),
            !.calls = Append(@, TaskCall("process_tagged", sched.active[index].handle,
                                         "Output")),
            !.returned = Append(@, Event("TaskFinished", sched.active[index].handle))]

\* The variants of Response that Scheduler::progress wraps what it returns in.
DataResponse == [variant |-> "Data"]
ContinuationResponse == [variant |-> "CommandContinuationRequest"]
StatusResponse(status) == [variant |-> "Status", status |-> status]

\* SchedulerEvent::Unsolicited
Unsolicited(response) == [type |-> "Unsolicited", handle |-> 0, response |-> response]

\* ContinuationAuthenticateReceived: the data the task answers with is dropped.
ContinuationAuthenticate(sched, handle, answer) ==
    LET index == PositionByHandle(sched.active, handle) IN
    IF index = 0 THEN Panics(sched)
    ELSE [sched EXCEPT
            !.calls = Append(@, TaskCall("process_continuation_authenticate",
                                         handle, answer)),
            !.returned = IF answer = "Continuation"
                         THEN Append(@, Unsolicited(ContinuationResponse)) ELSE @]

\* Mutant of TrickleDown: a task that keeps the response does not stop the
\* offering.
TrickleDownOffersAll(sched, call, consumer, response) ==
    [sched EXCEPT
        !.calls = @ \o [k \in 1..Len(sched.active) |->
                            TaskCall(call, sched.active[k].handle,
                                     IF k = consumer THEN "Consumed" ELSE "Back")],
        !.returned = IF consumer = 0 THEN Append(@, Unsolicited(response)) ELSE @]

(* lib.rs: trickle_down over the active tasks.  consumer is the position of
   the first task that keeps the response, 0 when every task hands it back;
   a task hands back what it was given. *)
TrickleDown(sched, call, consumer, response) ==
    LET offered == IF consumer = 0 THEN Len(sched.active) ELSE consumer
    IN  [sched EXCEPT
            !.calls = @ \o [k \in 1..offered |->
                                TaskCall(call, sched.active[k].handle,
                                         IF k = consumer THEN "Consumed" ELSE "Back")],
            !.returned = IF consumer = 0
                         THEN Append(@, Unsolicited(response)) ELSE @]

TrickledTypes == {"DataReceived", "ContinuationReceived", "StatusReceived"}

\* The arms of the match in Scheduler::progress.  answer is what the task
\* makes of an authenticate continuation, consumer who keeps a trickled response.
Route(sched, event, answer, consumer) ==
    CASE event.type \in {"CommandSent", "AuthenticateStarted"} ->
            Activate(sched, event.handle)
      [] event.type \in {"CommandRejected", "AuthenticateAccepted",
                         "AuthenticateRejected"} ->
            FinishByHandle(sched, event.handle)
      [] event.type = "ContinuationAuthenticateReceived" ->
            ContinuationAuthenticate(sched, event.handle, answer)
      [] event.type = "DataReceived" ->
            TrickleDown(sched, "process_data", consumer, DataResponse)
      [] event.type = "ContinuationReceived" ->
            TrickleDown(sched, "process_continuation", consumer, ContinuationResponse)
      [] event.type = "StatusReceived" ->
            CASE event.status.type = "Untagged" ->
                    TrickleDown(sched, "process_untagged", consumer,
                                StatusResponse(event.status))
              [] event.status.type = "Bye" ->
                    TrickleDown(sched, "process_bye", consumer,
                                StatusResponse(event.status))
              [] OTHER -> FinishByTag(sched, event.status.tag)
      [] event.type = "None" -> sched
      [] OTHER -> Panics(sched)

\* The scheduler takes the values of the record.
Becomes(sched) ==
    /\ waiting_tasks' = sched.waiting
    /\ active_tasks' = sched.active
    /\ scheduler_events' = sched.returned
    /\ task_calls' = sched.calls
    /\ UNCHANGED tokenState

\* Responses routed so far that no command of the flow waited for.
Routed == Len(SelectSeq(events, LAMBDA e : e.type \in TrickledTypes))

Answers == {"Data", "Continuation"}

\* Task::command_body: a command without literal, one with Sync literals,
\* AUTHENTICATE and IDLE.
TaskBodies == {"Noop", "Sync2", "Authenticate", "Idle"}

(* lib.rs: Scheduler::enqueue_task *)
EnqueueTask(body) ==
    /\ engine = "scheduler" /\ pc \in IdlePcs /\ ~Panicked
    /\ next_handle <= MaxCmds
    /\ queued_commands' = Append(queued_commands,
            [handle |-> next_handle,
             command |-> [tag |-> TagOf(next_handle), body |-> body]])
    /\ enqueued' = Append(enqueued, [tag |-> TagOf(next_handle), body |-> body])
    /\ waiting_tasks' = Append(waiting_tasks, TaskEntry(next_handle))
    /\ next_handle' = next_handle + 1
    /\ pc' = "idle"
    /\ UNCHANGED <<engine, write_buffer, wire, events, continued, current_command,
                   sendState, respState, serverState, active_tasks, scheduler_events,
                   task_calls, tokenState>>

(* Scheduler::progress, in flow.progress: the send side up to write_all. *)
SchedulerProgressBegin ==
    /\ engine = "scheduler" /\ pc \in IdlePcs /\ ~Panicked
    /\ current_command # None \/ queued_commands # <<>>
    /\ LET current == IF current_command # None
                      THEN current_command
                      ELSE Start(Head(queued_commands))
           pushed == PushToBuffer(current, write_buffer)
       IN  /\ queued_commands' = IF current_command # None
                                 THEN queued_commands
                                 ELSE Tail(queued_commands)
           /\ current_command' = pushed.state
           /\ write_buffer' = pushed.buffer
    /\ pc' = "writing"
    /\ UNCHANGED <<engine, wire, events, next_handle, enqueued, continued,
                   sendState, respState, serverState, schedState>>

(* Scheduler::progress: write_all returned, the flow returns the event of
   finish_sending and the scheduler routes it. *)
SchedulerProgressEnd ==
    /\ engine = "scheduler" /\ pc = "writing"
    /\ write_buffer = <<>>
    /\ LET result == FinishSending(current_command) IN
       /\ current_command' = result.state
       /\ events' = Emit(result.event)
       /\ Becomes(Route(Scheduler, ClientFlowEvent(result.event), "Data", 0))
    /\ pc' = "idle"
    /\ UNCHANGED <<engine, write_buffer, wire, next_handle, enqueued, continued,
                   queued_commands, sendState, respState, serverState>>

(* Scheduler::progress: the flow receives a status. *)
SchedulerReceiveStatus(status, consumer) ==
    /\ engine = "scheduler" /\ pc \in IdlePcs /\ ~Panicked
    /\ LET termination == Termination(current_command, status)
           event == IF termination = NoEvent
                    THEN [type |-> "StatusReceived", handle |-> 0, status |-> status]
                    ELSE ClientFlowEvent(termination)
       IN  /\ event.type \in TrickledTypes => Routed < MaxRouted
           /\ consumer # 0 => /\ event.type = "StatusReceived"
                              /\ status.type # "Tagged"
           /\ current_command' = IF termination = NoEvent THEN current_command ELSE None
           /\ events' = Append(events, IF termination = NoEvent
                                       THEN Event("StatusReceived", 0) ELSE termination)
           /\ Becomes(Route(Scheduler, event, "Data", consumer))
    /\ pc' = "idle"
    /\ UNCHANGED <<engine, write_buffer, wire, next_handle, enqueued, continued,
                   queued_commands, sendState, respState, serverState>>

(* Scheduler::progress: the flow receives a continuation request. *)
SchedulerReceiveContinuation(answer, consumer) ==
    /\ engine = "scheduler" /\ pc \in IdlePcs /\ ~Panicked
    /\ CASE LiteralContinueOk(current_command) ->
                /\ answer = "Data" /\ consumer = 0
                /\ current_command' =
                        [current_command EXCEPT !.activity.name = "PushingFragments"]
                /\ continued' = Append(continued, current_command.activity.data.data[1])
                /\ UNCHANGED <<events, schedState>>
         [] AuthenticateContinueOk(current_command) ->
                /\ consumer = 0
                /\ current_command' = [current_command EXCEPT
                        !.activity.name = "WaitingForAuthenticateDataSet"]
                /\ events' = Append(events, Event("ContinuationAuthenticateReceived",
                                                  current_command.handle))
                /\ Becomes(Route(Scheduler,
                                 Event("ContinuationAuthenticateReceived",
                                       current_command.handle), answer, 0))
                /\ UNCHANGED continued
         [] IdleContinueOk(current_command) ->
                /\ answer = "Data" /\ consumer = 0
                /\ current_command' = [current_command EXCEPT
                        !.activity.name = "WaitingForIdleDoneSet"]
                /\ events' = Append(events, Event("IdleAccepted", current_command.handle))
                /\ Becomes(Route(Scheduler, Event("IdleAccepted", current_command.handle),
                                 "Data", 0))
                /\ UNCHANGED continued
         [] OTHER ->
                /\ answer = "Data"
                /\ Routed < MaxRouted
                /\ events' = Append(events, Event("ContinuationReceived", 0))
                /\ Becomes(Route(Scheduler, Event("ContinuationReceived", 0),
                                 "Data", consumer))
                /\ UNCHANGED <<current_command, continued>>
    /\ pc' = "idle"
    /\ UNCHANGED <<engine, write_buffer, wire, next_handle, enqueued,
                   queued_commands, sendState, respState, serverState>>

(* Scheduler::progress: the flow receives data. *)
SchedulerReceiveData(consumer) ==
    /\ engine = "scheduler" /\ pc \in IdlePcs /\ ~Panicked
    /\ Routed < MaxRouted
    /\ events' = Append(events, Event("DataReceived", 0))
    /\ Becomes(Route(Scheduler, Event("DataReceived", 0), "Data", consumer))
    /\ pc' = "idle"
    /\ UNCHANGED <<engine, write_buffer, wire, next_handle, enqueued, continued,
                   cmdState, sendState, respState, serverState>>

SchedulerInit == engine = "scheduler" /\ InitVars

SchedulerNext ==
    \/ \E body \in TaskBodies : EnqueueTask(body)
    \/ SchedulerProgressBegin
    \/ \E n \in 1..Len(write_buffer) : WriteSome(n)
    \/ Cancel
    \/ SchedulerProgressEnd
    \/ \E status \in Statuses, consumer \in 0..Len(active_tasks) :
            SchedulerReceiveStatus(status, consumer)
    \/ \E answer \in Answers, consumer \in 0..Len(active_tasks) :
            SchedulerReceiveContinuation(answer, consumer)
    \/ \E consumer \in 0..Len(active_tasks) : SchedulerReceiveData(consumer)

SchedulerSpec == SchedulerInit /\ [][SchedulerNext]_vars

----------------------------------------------------------------------------
(* tasks/src/lib.rs: TaskToken and TaskHandle::resolve, as the embedder uses
   them on the tokens that TaskFinished gave it. *)

MaxResolves == 3      \* calls of resolve in one behaviour

\* The token of TaskFinished for the task with this handle: its output is
\* Some(task.process_tagged(body)).
TaskToken(handle) == [handle |-> handle, output |-> SomeData(handle)]

\* Mutant of TaskHandleResolve: the output is copied, not taken.
TaskHandleResolveKeepsOutput(handle, token) ==
    IF token.handle # handle
    THEN [output |-> NoData, token |-> token]
    ELSE [output |-> token.output, token |-> token]

(* lib.rs: TaskHandle::resolve, the value it returns and the token it leaves. *)
TaskHandleResolve(handle, token) ==
    IF token.handle # handle
    THEN [output |-> NoData, token |-> token]
    ELSE IF ~token.output.some
         THEN [output |-> NoData, token |-> token]
         ELSE [output |-> token.output, token |-> [token EXCEPT !.output = NoData]]

(* Scheduler::progress returned TaskFinished(token) for one more task. *)
TaskFinished(handle) ==
    /\ engine = "resolve"
    /\ handle \in 1..MaxCmds
    /\ \A k \in 1..Len(tokens) : tokens[k].handle # handle
    /\ tokens' = Append(tokens, TaskToken(handle))
    /\ UNCHANGED <<engine, pc, write_buffer, wire, events, next_handle, enqueued,
                   continued, cmdState, sendState, respState, serverState,
                   waiting_tasks, active_tasks, scheduler_events, task_calls, resolved>>

(* The embedder calls handle.resolve(&mut token) on its k-th token. *)
Resolve(handle, k) ==
    /\ engine = "resolve"
    /\ Len(resolved) < MaxResolves
    /\ k \in 1..Len(tokens)
    /\ LET result == TaskHandleResolve(handle, tokens[k]) IN
       /\ tokens' = [tokens EXCEPT ![k] = result.token]
       /\ resolved' = Append(resolved,
                [handle |-> handle, token |-> k, output |-> result.output])
    /\ UNCHANGED <<engine, pc, write_buffer, wire, events, next_handle, enqueued,
                   continued, cmdState, sendState, respState, serverState,
                   waiting_tasks, active_tasks, scheduler_events, task_calls>>

ResolveInit == engine = "resolve" /\ InitVars

ResolveNext ==
    \/ \E handle \in 1..MaxCmds : TaskFinished(handle)
    \/ \E handle \in 1..MaxCmds, k \in 1..Len(tokens) : Resolve(handle, k)

ResolveSpec == ResolveInit /\ [][ResolveNext]_vars

----------------------------------------------------------------------------
(* Properties *)

ClientEngines == {"command", "send"}

Range(s) == {s[k] : k \in DOMAIN s}

IsPrefix(s, t) == Len(s) <= Len(t) /\ SubSeq(t, 1, Len(s)) = s

\* Every byte that was pushed to the write buffer and not cleared from it.
Pushed == wire \o write_buffer

BytesOf(h, s) == SelectSeq(s, LAMBDA b : b.h = h)

RECURSIVE Flatten(_)
Flatten(fragments) ==
    IF fragments = <<>> THEN <<>>
    ELSE Head(fragments).data \o Flatten(Tail(fragments))

IsLiteral(h, f, mode) ==
    /\ h \in 1..Len(enqueued)
    /\ LET fragments == Encode(h, enqueued[h].body) IN
       /\ f \in 1..Len(fragments)
       /\ fragments[f].type = "Literal"
       /\ fragments[f].mode = mode

IsSyncLiteralByte(b) == IsLiteral(b.h, b.f, "Sync")

FirstByte(b) == [h |-> b.h, f |-> b.f, i |-> 1]

\* Successful literal continuations of the command with handle h.
Continuations(h) == Len(BytesOf(h, continued))

SyncCount(fragments) ==
    Cardinality({f \in 1..Len(fragments) :
        fragments[f].type = "Literal" /\ fragments[f].mode = "Sync"})

\* The bytes of the fragments before the (c+1)-th Sync literal.
RECURSIVE ReleasedBytes(_, _)
ReleasedBytes(fragments, c) ==
    IF fragments = <<>> THEN <<>>
    ELSE LET fragment == Head(fragments) IN
         IF fragment.type = "Literal" /\ fragment.mode = "Sync"
         THEN IF c = 0 THEN <<>>
              ELSE fragment.data \o ReleasedBytes(Tail(fragments), c - 1)
         ELSE fragment.data \o ReleasedBytes(Tail(fragments), c)

\* C1: in the client send engines a byte of a Sync literal is in the write
\* buffer or on the stream only if literal_continue succeeded while that
\* literal was the literal the current command was waiting on.
C1_SyncLiteralAfterContinue ==
    engine \in ClientEngines =>
        \A k \in 1..Len(Pushed) :
            IsSyncLiteralByte(Pushed[k]) => FirstByte(Pushed[k]) \in Range(continued)

\* A Sync literal has reached the stream.
C1_Witness ==
    /\ engine = "command"
    /\ \E k \in 1..Len(wire) : IsSyncLiteralByte(wire[k])

\* C2: a regular command with k Sync literals is reported sent only after
\* exactly k successful continuations, and after c continuations the pushed
\* bytes of the command are the fragments before its (c+1)-th Sync literal
\* (before its c-th while the accepted literal is not pushed yet).
C2_ContinuationsReleaseLiterals ==
    engine \in ClientEngines =>
        \A h \in 1..Len(enqueued) :
            enqueued[h].body \in RegularBodies =>
                LET fragments == Encode(h, enqueued[h].body)
                    c == Continuations(h)
                    pushed == BytesOf(h, Pushed)
                IN  /\ (\E k \in 1..Len(events) :
                            /\ events[k].type \in {"Command", "CommandSent"}
                            /\ events[k].handle = h)
                        => c = SyncCount(fragments)
                    /\ \/ pushed = <<>>
                       \/ pushed = ReleasedBytes(fragments, c)
                       \/ c > 0 /\ pushed = ReleasedBytes(fragments, c - 1)

\* The literal the engine holds back, if there is one.
HeldLiteral ==
    IF engine = "command"
    THEN IF current_command # None /\ current_command.kind = "Command"
         THEN current_command.activity.data
         ELSE NoData
    ELSE IF send_progress # None
              /\ send_progress.blocked_reason.name = "WaitForLiteralAck"
         THEN send_progress.blocked_reason.data
         ELSE NoData

\* C3: a NonSync literal is never held back for a continuation, its bytes are
\* pushed directly after the line that announces it, and a command without
\* Sync literals is reported sent with zero continuations.
C3_NonSyncNeverWaits ==
    engine \in ClientEngines =>
        /\ HeldLiteral.some => IsSyncLiteralByte(HeldLiteral.data[1])
        /\ \A k \in 1..Len(Pushed) :
                LET b == Pushed[k] IN
                (b.i = 2 /\ IsLiteral(b.h, b.f + 1, "NonSync")) =>
                    /\ k + 2 <= Len(Pushed)
                    /\ Pushed[k + 1] = [h |-> b.h, f |-> b.f + 1, i |-> 1]
                    /\ Pushed[k + 2] = [h |-> b.h, f |-> b.f + 1, i |-> 2]
        /\ \A k \in 1..Len(events) :
                (/\ events[k].type \in {"Command", "CommandSent"}
                 /\ SyncCount(Encode(events[k].handle,
                                     enqueued[events[k].handle].body)) = 0)
                    => Continuations(events[k].handle) = 0

\* C4: the bytes on the stream are in enqueue order of their commands, so the
\* bytes of two commands never interleave.
C4_WireInEnqueueOrder ==
    engine \in ClientEngines =>
        \A k \in 1..Len(wire) - 1 : wire[k].h <= wire[k + 1].h

\* Bytes of two commands are on the stream.
C4_Witness ==
    /\ engine = "command"
    /\ \E j, k \in 1..Len(wire) : wire[j].h < wire[k].h

TerminalTypes ==
    {"Command", "LiteralRejected", "AuthenticateAccepted", "AuthenticateRejected",
     "IdleRejected", "IdleDone"}

IsTerminal(k) == events[k].type \in TerminalTypes

\* C5: at most one terminal event is emitted for a handle, and only for a
\* handle that enqueue returned.
C5_AtMostOneTerminal ==
    engine = "command" =>
        /\ \A j, k \in 1..Len(events) :
                (IsTerminal(j) /\ IsTerminal(k) /\ events[j].handle = events[k].handle)
                    => j = k
        /\ \A k \in 1..Len(events) :
                IsTerminal(k) => events[k].handle \in 1..Len(enqueued)

\* One command was reported sent and another one was terminated by a status.
C5_Witness ==
    /\ engine = "command"
    /\ \E j, k \in 1..Len(events) :
            /\ events[j].type = "Command"
            /\ events[k].type \in TerminalTypes \ {"Command", "IdleDone"}

\* C6: terminal events are emitted in enqueue order of their handles.
C6_TerminalInEnqueueOrder ==
    engine = "command" =>
        \A j, k \in 1..Len(events) :
            (IsTerminal(j) /\ IsTerminal(k) /\ events[j].handle < events[k].handle)
                => j < k

\* The first two commands both have their terminal event.
C6_Witness ==
    /\ engine = "command"
    /\ \E j, k \in 1..Len(events) :
            /\ IsTerminal(j) /\ events[j].handle = 1
            /\ IsTerminal(k) /\ events[k].handle = 2

HandlesOf(s) == [k \in 1..Len(s) |-> s[k].handle]

\* Handles of the responses the embedder enqueued, in enqueue order.
ExternalHandles == HandlesOf(SelectSeq(enqueued, LAMBDA e : e.handle # NoHandle))

\* Handles the flow reported as sent.  send_response.rs returns the Option
\* handle of every response; the flow drops the ones without a handle.
SentHandles ==
    HandlesOf(SelectSeq(events, LAMBDA e :
        /\ e.type = "ResponseSent"
        /\ engine = "response" => e.handle # NoHandle))

\* Nothing is queued or in flight.
Drained ==
    /\ pc \in IdlePcs
    /\ send_queue = <<>> /\ send_progress = None
    /\ queued_responses = <<>> /\ current_response = None

RECURSIVE ResponseBytes(_)
ResponseBytes(n) ==
    IF n = 0 THEN <<>>
    ELSE ResponseBytes(n - 1) \o Flatten(EncodeResponse(enqueued[n].response))

\* C7: the ResponseSent events carry the handles of the responses the embedder
\* enqueued, once each and in enqueue order, none for an internal response; when
\* everything is sent the stream holds every response, internal ones included.
C7_ResponseSentOncePerResponse ==
    engine \in {"server", "response"} =>
        /\ IsPrefix(SentHandles, ExternalHandles)
        /\ Drained => /\ SentHandles = ExternalHandles
                      /\ wire = ResponseBytes(Len(enqueued))

\* The server has sent an internal response and one of the embedder.
C7_Witness ==
    /\ engine = "server"
    /\ Drained
    /\ \E j, k \in 1..Len(enqueued) :
            enqueued[j].handle = NoHandle /\ enqueued[k].handle # NoHandle

\* C8: a progress call that directly follows a cancelled one changes nothing
\* and waits at the await the cancelled call was dropped at, so that the rest
\* of the run, and with it the events progress returns, is the run without
\* the cancellation.  (Cancel itself changes nothing but pc; the two awaits
\* of send.rs behind "cancelled_blocked" both return no event.)
C8_ResumeAfterCancel ==
    [][(pc \in {"cancelled", "cancelled_blocked"} /\ pc' \in WritingPcs) =>
            /\ UNCHANGED <<engine, write_buffer, wire, events, next_handle,
                           enqueued, continued, cmdState, sendState, respState,
                           serverState>>
            /\ pc = "cancelled" => pc' = "writing"
            /\ pc = "cancelled_blocked" => pc' = "flushing"]_vars

\* A progress call of the client was cancelled in the middle of a write.
C8_Witness ==
    /\ engine = "command"
    /\ pc = "cancelled"
    /\ current_command # None
    /\ wire # <<>> /\ write_buffer # <<>>

\* The bytes a command can put on the stream, in order.
FullBytes(h) ==
    Flatten(Encode(h, enqueued[h].body))
        \o (CASE enqueued[h].body = "Authenticate" ->
                    Flatten([r \in 1..MaxAuthRounds |-> Line(h, AuthDataFrag(r))])
              [] enqueued[h].body = "Idle" -> Bytes(h, IdleDoneFrag)
              [] OTHER -> <<>>)

\* The command or response in flight.
InFlight ==
    CASE engine = "command"  -> current_command
      [] engine = "response" -> current_response
      [] OTHER               -> send_progress

\* C9: when progress is cancelled the command or response in flight is stored
\* in the engine; no byte is pushed twice, and the bytes pushed so far are the
\* bytes of the messages that were started, none missing.
C9_NoByteTwiceOrLost ==
    engine \in {"command", "server"} =>
        /\ pc \in {"cancelled", "cancelled_blocked"} => InFlight # None
        /\ Cardinality(Range(Pushed)) = Len(Pushed)
        /\ engine = "server" =>
                Pushed = ResponseBytes(Len(enqueued) - Len(send_queue))
        /\ engine = "command" =>
                \A h \in 1..Len(enqueued) : IsPrefix(BytesOf(h, Pushed), FullBytes(h))

\* A progress call of the server was cancelled in the middle of a write.
C9_Witness ==
    /\ engine = "server"
    /\ pc = "cancelled"
    /\ send_progress # None
    /\ wire # <<>> /\ write_buffer # <<>>

\* C10: bytes leave the client write buffer only by being written to the
\* stream: what was pushed stays pushed.
C10_BufferOnlyDrainsToStream ==
    [][(engine \in ClientEngines) =>
            IsPrefix(wire \o write_buffer, wire' \o write_buffer')]_vars

\* The current command is a regular command that waits for the continuation
\* request of its Sync literal, and no progress call is running.
WaitingForLiteral ==
    /\ engine = "command" /\ pc \in IdlePcs
    /\ LiteralContinueOk(current_command)

\* The tagged statuses that reject a literal: BAD, and the NO that
\* ServerFlow::progress_receive enqueues for a literal that is too long.
LiteralRejections(tag) ==
    {[type |-> "Tagged", tag |-> tag, kind |-> kind] : kind \in {"Bad", "No"}}

\* C11: while a regular command waits for its Sync literal to be accepted, a
\* tagged BAD or NO with the command's tag makes maybe_remove terminate the
\* command with LiteralRejected for its handle (CommandRejected of the client
\* flow) and clear the current command; of a command terminated this way no
\* bytes beyond the literals that were accepted are ever pushed.
C11_LiteralRejection ==
    /\ WaitingForLiteral =>
            \A status \in LiteralRejections(current_command.command.tag) :
                ENABLED (/\ MaybeRemove(status)
                         /\ current_command' = None
                         /\ events' = Append(events,
                                Event("LiteralRejected", current_command.handle)))
    /\ engine = "command" =>
            \A k \in 1..Len(events) :
                events[k].type = "LiteralRejected" =>
                    LET h == events[k].handle IN
                    IsPrefix(BytesOf(h, Pushed),
                             ReleasedBytes(Encode(h, enqueued[h].body), Continuations(h)))

\* The queue entry of a response progress_receive enqueued itself.
InternalEntry(response) ==
    [key |-> NoHandle, response |-> response, fragments |-> EncodeResponse(response)]

\* C12: on LiteralFound the server either discards the message, enqueues one
\* internal tagged NO with the command's tag and returns LiteralTooLong
\* (length > max_literal_size), or calls start_literal(length), enqueues one
\* internal continuation request and returns no event (length <=
\* max_literal_size).
C12_ServerLiteralDecision ==
    [][\A ev \in ReceiveEvents :
        (ev.type = "LiteralFound" /\ ServerProgressReceive(ev)) =>
            IF ev.length > max_literal_size
            THEN /\ receive_call' = DiscardMessage
                 /\ send_queue' = Append(send_queue, InternalEntry(LiteralReject(ev.tag)))
                 /\ events' = Append(events, Event("LiteralTooLong", 0))
            ELSE /\ receive_call' = StartLiteral(ev.length)
                 /\ send_queue' = Append(send_queue, InternalEntry(LiteralAccept))
                 /\ events' = events]_vars

\* The server has accepted a literal of exactly max_literal_size and rejected
\* a longer one.
C12_Witness ==
    /\ engine = "server"
    /\ receive_call = DiscardMessage
    /\ events # <<>> /\ events[Len(events)].type = "LiteralTooLong"
    /\ \E k \in 1..Len(enqueued) :
            /\ enqueued[k].handle = NoHandle
            /\ enqueued[k].response.type = "Continuation"

ReceiveEventTypes ==
    {"CommandReceived", "CommandAuthenticateReceived", "AuthenticateDataReceived",
     "LiteralTooLong", "MalformedMessage", "ExpectedCrlfGotLf"}

\* The k-th response enqueued is the NO of a rejected literal.
IsLiteralReject(k) ==
    /\ k \in 1..Len(enqueued)
    /\ enqueued[k].handle = NoHandle
    /\ enqueued[k].response.type = "Status"

\* The last thing progress_receive did was to reject a literal: its last event
\* is LiteralTooLong and it has not accepted a literal since.
LiteralRejectedLast ==
    /\ engine = "server"
    /\ LET received_events == SelectSeq(events, LAMBDA e : e.type \in ReceiveEventTypes)
       IN  /\ received_events # <<>>
           /\ received_events[Len(received_events)].type = "LiteralTooLong"
    /\ \E k \in 1..Len(enqueued) :
            /\ IsLiteralReject(k)
            /\ \A j \in k + 1..Len(enqueued) : enqueued[j].handle # NoHandle

\* C13: for a literal longer than max_literal_size start_literal is not
\* called, so none of its bytes is read as literal data; the tagged NO is
\* eventually written to the stream; and the command the receive state decodes
\* next is surfaced as CommandReceived.
C13_RejectedLiteral ==
    /\ [](LiteralRejectedLast => receive_call = DiscardMessage)
    /\ []<>(\A k \in 1..Len(enqueued) :
                IsLiteralReject(k) => [h |-> k, f |-> 1, i |-> 2] \in Range(wire))
    /\ [][\A ev \in ReceiveEvents :
            (/\ LiteralRejectedLast
             /\ ev.type = "DecodingSuccess" /\ ev.body = "Noop"
             /\ ServerProgressReceive(ev))
                => events' = Append(events, Event("CommandReceived", 0))]_vars

\* A literal was rejected, the NO is on the stream and the next command was
\* received.
C13_Witness ==
    /\ engine = "server"
    /\ receive_call = FinishMessage
    /\ \E k \in 1..Len(enqueued) :
            IsLiteralReject(k) /\ [h |-> k, f |-> 1, i |-> 2] \in Range(wire)
    /\ \E j \in 1..Len(events) - 1 :
            /\ events[j].type = "LiteralTooLong"
            /\ events[Len(events)].type = "CommandReceived"

\* The tagged statuses that carry the tag of the current command.
MatchingStatuses(current) ==
    {[type |-> "Tagged", tag |-> current.command.tag, kind |-> kind] : kind \in StatusKinds}

\* The current command is an IDLE command whose continuation request was not
\* accepted yet, and no progress call is running.
IdleNotAccepted ==
    /\ engine = "command" /\ pc \in IdlePcs
    /\ current_command # None
    /\ current_command.kind = "Idle"
    /\ current_command.activity.name \in
            {"PushingIdle", "WaitingForIdleSent", "WaitingForIdleResponse"}

\* C14: while the current command is an IDLE command for which idle_continue
\* has not succeeded yet, maybe_remove with a tagged OK, NO or BAD that carries
\* the tag of the IDLE command terminates it with IdleRejected for its handle
\* and clears the current command.
C14_IdleRejectedBeforeContinue ==
    IdleNotAccepted =>
        \A status \in MatchingStatuses(current_command) :
            /\ Termination(current_command, status)
                    = Event("IdleRejected", current_command.handle)
            /\ ENABLED (/\ MaybeRemove(status)
                        /\ current_command' = None
                        /\ events' = Append(events,
                                Event("IdleRejected", current_command.handle)))

\* An IDLE command was rejected while it waited for its continuation request.
C14_Witness ==
    /\ engine = "command"
    /\ current_command = None
    /\ events # <<>>
    /\ events[Len(events)].type = "IdleRejected"
    /\ ~ \E k \in 1..Len(events) : events[k].type = "CommandIdle"

\* idle_continue succeeded for the current IDLE command.
IdleAccepted ==
    /\ engine = "command" /\ pc \in IdlePcs
    /\ current_command # None
    /\ current_command.kind = "Idle"
    /\ current_command.activity.name \in
            {"WaitingForIdleDoneSet", "PushingIdleDone", "WaitingForIdleDoneSent"}

\* C15: after idle_continue succeeded for the current IDLE command, a tagged
\* status with the tag of the IDLE command is not turned into IdleRejected:
\* maybe_remove returns no termination and leaves the command in place.
C15_NoRejectionAfterContinue ==
    IdleAccepted =>
        \A status \in MatchingStatuses(current_command) :
            /\ Termination(current_command, status) = NoEvent
            /\ ENABLED (/\ MaybeRemove(status)
                        /\ current_command' = current_command
                        /\ events' = events)

\* The current command is the IDLE command h in the given activity.
IdleActivity(h, name) ==
    /\ current_command # None
    /\ current_command.kind = "Idle"
    /\ current_command.handle = h
    /\ current_command.activity.name = name

\* How often an event was emitted for a handle.
Emitted(type, h) == Len(SelectSeq(events, LAMBDA e : e = Event(type, h)))

\* The handles of the IDLE commands enqueued so far.
IdleHandles == {h \in 1..Len(enqueued) : enqueued[h].body = "Idle"}

\* C16: an IDLE command that is not rejected gets CommandIdle (IdleCommandSent) once, when its
\* IDLE line is on the stream, and IdleDone (IdleDoneSent) once, afterwards,
\* when its DONE line is on the stream; the DONE line is pushed only from
\* PushingIdleDone, which only a succeeding set_idle_done enters, from
\* WaitingForIdleDoneSet, which only a succeeding idle_continue enters, from
\* WaitingForIdleResponse; IdleDone leaves no current command behind.
C16_IdleDialogue ==
    /\ [](engine = "command" =>
            \A h \in IdleHandles :
                /\ Emitted("CommandIdle", h) <= 1
                /\ Emitted("IdleDone", h) <= 1
                /\ \A k \in 1..Len(events) :
                        events[k] = Event("IdleDone", h) =>
                            \E j \in 1..k - 1 : events[j] = Event("CommandIdle", h)
                /\ (\E name \in {"WaitingForIdleResponse", "WaitingForIdleDoneSet",
                                  "PushingIdleDone", "WaitingForIdleDoneSent"} :
                        IdleActivity(h, name))
                        => Emitted("CommandIdle", h) = 1 /\ Emitted("IdleDone", h) = 0
                /\ (/\ IsPrefix(Bytes(h, IdleDoneFrag), SelectSeq(BytesOf(h, wire),
                                        LAMBDA b : b.f = IdleDoneFrag))
                    /\ ~ IdleActivity(h, "WaitingForIdleDoneSent")
                    /\ Emitted("IdleRejected", h) = 0)
                        => Emitted("IdleDone", h) = 1)
    /\ [][(engine = "command") =>
            \A h \in IdleHandles :
                /\ Emitted("CommandIdle", h)' > Emitted("CommandIdle", h)
                        => /\ BytesOf(h, wire) = Bytes(h, 1)
                           /\ ProgressEnd
                /\ BytesOf(h, Pushed)' # BytesOf(h, Pushed)
                    /\ BytesOf(h, Pushed) # <<>>
                        => /\ IdleActivity(h, "PushingIdleDone")
                           /\ BytesOf(h, Pushed)' = Bytes(h, 1) \o Bytes(h, IdleDoneFrag)
                           /\ ProgressBegin
                /\ IdleActivity(h, "PushingIdleDone")' /\ ~ IdleActivity(h, "PushingIdleDone")
                        => /\ IdleActivity(h, "WaitingForIdleDoneSet")
                           /\ SetIdleDone
                /\ IdleActivity(h, "WaitingForIdleDoneSet")'
                    /\ ~ IdleActivity(h, "WaitingForIdleDoneSet")
                        => /\ IdleActivity(h, "WaitingForIdleResponse")
                           /\ IdleContinue
                /\ Emitted("IdleDone", h)' > Emitted("IdleDone", h)
                        => /\ BytesOf(h, wire) = Bytes(h, 1) \o Bytes(h, IdleDoneFrag)
                           /\ ProgressEnd
                           /\ current_command' = None
                           /\ pc' \in IdlePcs]_vars

\* An IDLE command went through its whole dialogue and the command queued
\* behind it was started.
C16_Witness ==
    /\ engine = "command"
    /\ \E h \in IdleHandles :
            /\ Emitted("CommandIdle", h) = 1
            /\ Emitted("IdleDone", h) = 1
            /\ current_command # None
            /\ current_command.handle = h + 1

\* The event that reports an AUTHENTICATE command as started:
\* SendCommandEvent::CommandAuthenticate of send_command.rs,
\* SendCommandEvent::CommandAuthenticateStarted of send.rs.
AuthenticateStarted(h) ==
    Event(IF engine = "send" THEN "CommandAuthenticateStarted" ELSE "CommandAuthenticate", h)

StartedCount(h) == Len(SelectSeq(events, LAMBDA e : e = AuthenticateStarted(h)))

\* The handles of the AUTHENTICATE commands enqueued so far.
AuthenticateHandles == {h \in 1..Len(enqueued) : enqueued[h].body = "Authenticate"}

\* A continuation request would be taken for the AUTHENTICATE command h.
CanContinueAuthenticate(h) ==
    \/ /\ engine = "command"
       /\ AuthenticateContinueOk(current_command)
       /\ current_command.handle = h
    \/ /\ engine = "send"
       /\ SendContinueAuthenticateOk(send_progress)
       /\ send_progress.key = h

\* C17: an AUTHENTICATE command is reported as started at most once, by the
\* progress call that finds its initial line completely on the stream and
\* nothing else of it pushed; it has been reported once whenever a
\* continuation request can be taken for it, and whenever authenticate data
\* of a later round was pushed.
C17_AuthenticateStartedOnce ==
    /\ []((engine \in ClientEngines) =>
            \A h \in AuthenticateHandles :
                /\ StartedCount(h) <= 1
                /\ CanContinueAuthenticate(h) => StartedCount(h) = 1
                /\ (\E b \in Range(Pushed) : b.h = h /\ b.f # 1) => StartedCount(h) = 1)
    /\ [][(engine \in ClientEngines) =>
            \A h \in AuthenticateHandles :
                StartedCount(h)' > StartedCount(h)
                    => /\ BytesOf(h, wire) = Bytes(h, 1)
                       /\ BytesOf(h, write_buffer) = <<>>
                       /\ ~ CanContinueAuthenticate(h)
                       /\ CanContinueAuthenticate(h)'
                       /\ ProgressEnd \/ SendProgressEnd]_vars

\* A later round of authenticate data was flushed and the command waits for
\* the next answer of the server, reported as started once.
C17_Witness ==
    /\ engine = "command"
    /\ \E h \in AuthenticateHandles :
            /\ BytesOf(h, wire) = Bytes(h, 1) \o Bytes(h, AuthDataFrag(1))
            /\ CanContinueAuthenticate(h)
            /\ StartedCount(h) = 1

\* The current command is an AUTHENTICATE command, in whatever activity, and
\* no progress call is running.
AuthenticateInProgress ==
    /\ engine = "command" /\ pc \in IdlePcs
    /\ current_command # None
    /\ current_command.kind = "Authenticate"

\* C18: while the current command is an AUTHENTICATE command, maybe_remove with
\* a tagged status that carries the command's tag returns AuthenticateAccepted
\* for OK and AuthenticateRejected for NO and BAD, with the handle of the
\* command and the command as it was enqueued, and clears the current command.
C18_AuthenticateTermination ==
    AuthenticateInProgress =>
        \A status \in MatchingStatuses(current_command) :
            LET h == current_command.handle
                type == IF status.kind = "Ok" THEN "AuthenticateAccepted"
                        ELSE "AuthenticateRejected"
            IN  /\ Termination(current_command, status) = Event(type, h)
                /\ TerminationCommand(current_command, status) = enqueued[h]
                /\ ENABLED (/\ MaybeRemove(status)
                            /\ current_command' = None
                            /\ events' = Append(events, Event(type, h)))

\* An AUTHENTICATE command was accepted after a round of authenticate data,
\* and the command queued behind it was started.
C18_Witness ==
    /\ engine = "command"
    /\ \E k \in 1..Len(events) :
            /\ events[k].type = "AuthenticateAccepted"
            /\ \E b \in Range(wire) : b.h = events[k].handle /\ b.f = AuthDataFrag(1)
            /\ current_command # None
            /\ current_command.handle = events[k].handle + 1

\* C19: when the scheduler has asked an active task for the answer to an
\* authenticate continuation and the task gave authenticate data, the step
\* leaves the flow with that data set (PushingAuthenticateData), and returns
\* nothing; when the task handed the continuation back, the step returns it
\* as Unsolicited.
C19_AuthenticateDataDelivered ==
    [][(engine = "scheduler") =>
        \A h \in AuthenticateHandles :
            /\ task_calls' = Append(task_calls,
                    TaskCall("process_continuation_authenticate", h, "Data"))
                    => /\ current_command' # None
                       /\ current_command'.handle = h
                       /\ current_command'.activity.name = "PushingAuthenticateData"
                       /\ scheduler_events' = scheduler_events
            /\ task_calls' = Append(task_calls,
                    TaskCall("process_continuation_authenticate", h, "Continuation"))
                    => scheduler_events' = Append(scheduler_events,
                                                  Unsolicited(ContinuationResponse))]_vars

\* C20: a step in which the flow emits CommandRejected (LiteralRejected of
\* maybe_remove) for a handle finds the task of that handle in active_tasks,
\* removes it, calls process_tagged on it and returns TaskFinished for the
\* handle.
C20_RejectedTaskFinished ==
    [][(engine = "scheduler") =>
        \A h \in 1..Len(enqueued) :
            events' = Append(events, Event("LiteralRejected", h))
                => /\ PositionByHandle(active_tasks, h) # 0
                   /\ PositionByHandle(active_tasks', h) = 0
                   /\ task_calls' = Append(task_calls,
                            TaskCall("process_tagged", h, "Output"))
                   /\ scheduler_events' = Append(scheduler_events,
                            Event("TaskFinished", h))]_vars

\* The tagged statuses.
TaggedStatuses == {status \in Statuses : status.type = "Tagged"}

\* The handles of the tasks of a collection, in its order.
TaskHandles(tasks) == [k \in 1..Len(tasks) |-> tasks[k].handle]

\* C21: a step in which the flow surfaces a tagged status as StatusReceived
\* looks for the tag among the active tasks only.  If an active task has the
\* tag, that task alone leaves active, process_tagged is called on it once and
\* TaskFinished is returned for its handle; if none has it, the step returns
\* UnexpectedTaggedResponse, calls no task and leaves waiting and active as
\* they are.
C21_TaggedStatusByTag ==
    [][(engine = "scheduler") =>
        \A status \in TaggedStatuses :
            (/\ SchedulerReceiveStatus(status, 0)
             /\ events' = Append(events, Event("StatusReceived", 0)))
                => /\ waiting_tasks' = waiting_tasks
                   /\ IF \E k \in 1..Len(active_tasks) : active_tasks[k].tag = status.tag
                      THEN \E k \in 1..Len(active_tasks) :
                            /\ active_tasks[k].tag = status.tag
                            /\ active_tasks' = SelectSeq(active_tasks,
                                    LAMBDA t : t.tag # status.tag)
                            /\ Len(active_tasks') = Len(active_tasks) - 1
                            /\ task_calls' = Append(task_calls,
                                    TaskCall("process_tagged", active_tasks[k].handle,
                                             "Output"))
                            /\ scheduler_events' = Append(scheduler_events,
                                    Event("TaskFinished", active_tasks[k].handle))
                      ELSE /\ active_tasks' = active_tasks
                           /\ task_calls' = task_calls
                           /\ scheduler_events' = Append(scheduler_events,
                                    Event("UnexpectedTaggedResponse", 0))]_vars

\* A task was finished by its tagged status while another task was left in
\* the scheduler.
C21_Witness ==
    /\ engine = "scheduler"
    /\ events # <<>> /\ events[Len(events)].type = "StatusReceived"
    /\ scheduler_events # <<>>
    /\ scheduler_events[Len(scheduler_events)].type = "TaskFinished"
    /\ Len(waiting_tasks) + Len(active_tasks) > 0

\* The responses that are trickled: data, a continuation request that no
\* command waits for, untagged statuses and BYE.
TrickledResponses ==
    {DataResponse, ContinuationResponse}
        \cup {StatusResponse(status) : status \in Statuses \ TaggedStatuses}

\* The step routes the response through trickle_down.
Trickles(response) ==
    \E consumer \in 0..Len(active_tasks) :
        CASE response = DataResponse -> SchedulerReceiveData(consumer)
          [] response = ContinuationResponse ->
                /\ SchedulerReceiveContinuation("Data", consumer)
                /\ events' = Append(events, Event("ContinuationReceived", 0))
          [] OTHER ->
                /\ SchedulerReceiveStatus(response.status, consumer)
                /\ events' = Append(events, Event("StatusReceived", 0))

\* The calls on tasks that the step adds.
NewCalls == SubSeq(task_calls', Len(task_calls) + 1, Len(task_calls'))

\* C22: the active tasks are kept in submission order, and a step that
\* trickles a response offers it to a prefix of them, in that order, and to
\* no waiting task; every task but the last one offered hands it back; when
\* the last one offered keeps it nothing is returned, otherwise every active
\* task was offered it and Unsolicited is returned with the response as it
\* was received; neither collection changes.
C22_Trickle ==
    /\ [](engine = "scheduler" =>
            \A j, k \in 1..Len(active_tasks) :
                j < k => active_tasks[j].handle < active_tasks[k].handle)
    /\ [][(engine = "scheduler") =>
            \A response \in TrickledResponses :
                Trickles(response) =>
                    LET offered == Len(NewCalls) IN
                    /\ task_calls' = task_calls \o NewCalls
                    /\ offered <= Len(active_tasks)
                    /\ \A k \in 1..offered :
                            /\ NewCalls[k].handle = active_tasks[k].handle
                            /\ k < offered => NewCalls[k].result = "Back"
                            /\ NewCalls[k].result \in {"Back", "Consumed"}
                    /\ IF offered > 0 /\ NewCalls[offered].result = "Consumed"
                       THEN scheduler_events' = scheduler_events
                       ELSE /\ offered = Len(active_tasks)
                            /\ scheduler_events' =
                                    Append(scheduler_events, Unsolicited(response))
                    /\ UNCHANGED <<waiting_tasks, active_tasks>>]_vars

\* The first of two active tasks kept a response, the second was not offered
\* it.
C22_Witness ==
    /\ engine = "scheduler"
    /\ Len(active_tasks) = 2
    /\ task_calls # <<>>
    /\ task_calls[Len(task_calls)] =
            TaskCall("process_data", active_tasks[1].handle, "Consumed")
    /\ \A k \in 1..Len(scheduler_events) : scheduler_events[k].type # "Unsolicited"

\* C23: resolve changes the token exactly when it returns an output.  With a
\* token of another handle it returns nothing and leaves the token as it is;
\* with the token of its own handle it returns the output and empties the
\* token the first time, and returns nothing afterwards; so no token gives
\* its output twice.
C23_ResolveOnce ==
    /\ [][(engine = "resolve") =>
            \A handle \in 1..MaxCmds, k \in 1..Len(tokens) :
                Resolve(handle, k) =>
                    LET token == tokens[k]
                        output == resolved'[Len(resolved')].output
                    IN  /\ (tokens' # tokens) <=> output.some
                        /\ token.handle # handle =>
                                output = NoData /\ tokens' = tokens
                        /\ (token.handle = handle /\ token.output.some) =>
                                /\ output = token.output
                                /\ tokens' = [tokens EXCEPT ![k].output = NoData]
                        /\ (token.handle = handle /\ ~token.output.some) =>
                                output = NoData /\ tokens' = tokens]_vars
    /\ [](engine = "resolve" =>
            \A i, j \in 1..Len(resolved) :
                (/\ i < j
                 /\ resolved[i].token = resolved[j].token
                 /\ resolved[i].output.some) => ~resolved[j].output.some)

\* A token was tried with another handle, gave its output to its own handle
\* and then gave nothing.
C23_Witness ==
    /\ engine = "resolve"
    /\ Len(resolved) = 3
    /\ resolved[1].token = resolved[2].token /\ resolved[2].token = resolved[3].token
    /\ resolved[1].handle # resolved[2].handle
    /\ resolved[2].handle = resolved[3].handle
    /\ ~resolved[1].output.some
    /\ resolved[2].output = SomeData(resolved[2].handle)
    /\ ~resolved[3].output.some

\* The step is progress_receive returning CommandAuthenticateReceived.
CommandAuthenticateReceived ==
    /\ \E ev \in ReceiveEvents :
            /\ ev.type = "DecodingSuccess" /\ ev.body = "Authenticate"
            /\ ServerProgressReceive(ev)
    /\ events' = Append(events, Event("CommandAuthenticateReceived", 0))

\* C24 as stated: the server expects a command by default, starts to expect
\* authenticate data in a call of authenticate_continue and expects a command
\* again after authenticate_finish; nothing else changes what it expects.
C24_ModeByAuthenticateContinue ==
    /\ [](engine = "server" /\ received = 0 => receive_command_state = "Command")
    /\ [][(engine = "server" /\ receive_command_state' # receive_command_state) =>
            IF receive_command_state' = "AuthenticateData"
            THEN ServerAuthenticateContinue
            ELSE ServerAuthenticateFinish]_vars

\* C24, amended: the server expects a command by default and starts to expect
\* authenticate data when progress returns CommandAuthenticateReceived;
\* authenticate_continue is accepted only then and changes nothing of it;
\* authenticate_finish makes it expect a command again; nothing else changes
\* what it expects, and next_expected_message says the same as the receive
\* state.
C24_ModeByAuthenticateCommand ==
    /\ [](engine = "server" =>
            /\ received = 0 => receive_command_state = "Command"
            /\ receive_command_state \in {"Command", "AuthenticateData"}
            /\ next_expected_message = receive_command_state)
    /\ [][(engine = "server") =>
            /\ (receive_command_state' # receive_command_state) =>
                    IF receive_command_state' = "AuthenticateData"
                    THEN CommandAuthenticateReceived
                    ELSE ServerAuthenticateFinish
            /\ CommandAuthenticateReceived =>
                    receive_command_state' = "AuthenticateData"
            /\ ServerAuthenticateContinue =>
                    /\ receive_command_state' = receive_command_state
                    /\ (enqueued' # enqueued) =>
                            receive_command_state = "AuthenticateData"
            /\ ServerAuthenticateFinish =>
                    /\ receive_command_state' = "Command"
                    /\ (enqueued' # enqueued) =>
                            receive_command_state = "AuthenticateData"]_vars

\* An AUTHENTICATE command was received, continued and finished: the server
\* expects a command again.
C24_Witness ==
    /\ engine = "server"
    /\ receive_command_state = "Command"
    /\ \E i \in 1..Len(events) : events[i].type = "CommandAuthenticateReceived"
    /\ Len(enqueued) = 2
    /\ enqueued[1].response.type = "Continuation" /\ enqueued[1].handle # NoHandle
    /\ enqueued[2].response.type = "Status" /\ enqueued[2].handle # NoHandle

\* C25: progress waits for bytes of the client only when every response has
\* been written: no response is queued, none is in flight and the write buffer
\* is empty, whether the responses were enqueued by the server itself or by
\* its user.
C25_DrainBeforeReceive ==
    (engine = "server" /\ pc = "receiving") =>
        /\ send_queue = <<>>
        /\ send_progress = None
        /\ write_buffer = <<>>

\* The errors progress returns for a message it cannot decode.
RecoverableErrors == {"MalformedMessage", "ExpectedCrlfGotLf"}

\* The step is progress returning one of the recoverable errors.
ReceiveError ==
    /\ \E ev \in ReceiveEvents : ServerProgressReceive(ev)
    /\ \E type \in RecoverableErrors : events' = Append(events, Event(type, 0))

\* The event progress returns for a message decoded in this receive state.
DecodedEvent(state) ==
    IF state = "Command" THEN {"CommandReceived", "CommandAuthenticateReceived"}
    ELSE {"AuthenticateDataReceived"}

\* C26: when progress returns MalformedMessage or ExpectedCrlfGotLf it has
\* discarded the message, and the responses queued, the response in flight,
\* the bytes to write and what the server expects next are as before; the
\* next progress call can be made, waits for the client again and returns
\* the next message it decodes as in a server that met no error.
C26_RecoverableReceiveError ==
    /\ [][(engine = "server" /\ ReceiveError) =>
            /\ receive_call' = DiscardMessage
            /\ UNCHANGED <<send_queue, send_progress, write_buffer, enqueued,
                           next_handle, next_expected_message, receive_command_state>>
            /\ pc' = "idle"]_vars
    /\ [](( /\ engine = "server"
            /\ events # <<>>
            /\ events[Len(events)].type \in RecoverableErrors) =>
            /\ pc = "idle" => ENABLED ServerProgressSendBegin
            /\ (pc = "receiving" /\ received < MaxReceives) =>
                    \A ev \in ReceiveEvents :
                        ev.type = "DecodingSuccess" => ENABLED ServerProgressReceive(ev))
    /\ [][(engine = "server") =>
            \A ev \in ReceiveEvents :
                (ev.type = "DecodingSuccess" /\ ServerProgressReceive(ev)) =>
                    /\ receive_call' = FinishMessage
                    /\ \E type \in DecodedEvent(receive_command_state) :
                            events' = Append(events, Event(type, 0))]_vars

\* A message that could not be decoded was followed by one that could.
C26_Witness ==
    /\ engine = "server"
    /\ Len(events) = 2
    /\ events[1].type \in RecoverableErrors
    /\ events[2].type = "CommandReceived"
    /\ receive_call = FinishMessage

\* The client engine has a command in progress.
CurrentExists ==
    IF engine = "command" THEN current_command # None ELSE send_progress # None

\* The last byte of the write buffer ends a message: the last fragment of a
\* command, or a line of authenticate data or DONE.
FullyPushed ==
    LET last == write_buffer[Len(write_buffer)] IN
        \/ last.f >= AuthDataFrag(0)
        \/ last.f = Len(Encode(last.h, enqueued[last.h].body))

\* The events of maybe_remove.
RemovedTypes ==
    {"LiteralRejected", "AuthenticateAccepted", "AuthenticateRejected", "IdleRejected"}

\* C27 as stated: between the calls of a client engine, bytes in the write
\* buffer mean that there is a current command, or else that the buffer ends
\* with a message pushed completely.
C27_BufferNeedsCurrent ==
    (engine \in {"command", "send"} /\ pc \in IdlePcs /\ write_buffer # <<>>) =>
        CurrentExists \/ FullyPushed

\* C27, amended: in send.rs bytes in the write buffer mean that a command is
\* in progress.  In send_command.rs the buffer holds bytes without a current
\* command only after maybe_remove removed the commands they belong to: it
\* leaves the unwritten bytes where they are, whether or not the rest of the
\* command was pushed.
C27_BufferOfRemovedCommand ==
    /\ []((engine = "send" /\ pc \in IdlePcs /\ write_buffer # <<>>) =>
            send_progress # None)
    /\ []((engine = "command" /\ pc \in IdlePcs /\ write_buffer # <<>>
                /\ current_command = None) =>
            \A k \in 1..Len(write_buffer) :
                \E type \in RemovedTypes : Emitted(type, write_buffer[k].h) = 1)
    /\ [][(/\ engine = "command"
            /\ current_command' = None /\ write_buffer' # <<>>
            /\ (current_command # None \/ write_buffer = <<>>)) =>
                /\ \E status \in Statuses : MaybeRemove(status)
                /\ write_buffer' = write_buffer]_vars

\* A command with a literal was removed while its first line was in the
\* buffer: the buffer is not empty, there is no current command and the
\* command was not pushed completely.
C27_Witness ==
    /\ engine = "command" /\ pc \in IdlePcs
    /\ write_buffer # <<>>
    /\ current_command = None
    /\ ~FullyPushed

\* C28: literal_continue returns true exactly when the current command is a
\* regular command in WaitingForLiteralAccepted; it then is in PushingFragments
\* with the literal that was in limbo as its accepted literal.  Otherwise it
\* returns false and the current command is as before.  The queue, the write
\* buffer and the events are as before in both cases.
C28_LiteralContinue ==
    [][(engine = "command" /\ LiteralContinue) =>
        LET current == current_command
            accepted == continued' # continued
        IN  /\ accepted <=> ( /\ current # None
                              /\ current.kind = "Command"
                              /\ current.activity.name = "WaitingForLiteralAccepted" )
            /\ accepted =>
                    /\ current.activity.data.some
                    /\ current_command' = [current EXCEPT !.activity =
                            [name |-> "PushingFragments",
                             data |-> current.activity.data]]
            /\ ~accepted => current_command' = current
            /\ UNCHANGED <<queued_commands, write_buffer, events, wire>>]_vars

\* literal_continue has just accepted a literal: the command is in
\* PushingFragments with a literal to push.
C28_Witness ==
    /\ engine = "command" /\ pc = "idle"
    /\ continued # <<>>
    /\ current_command # None
    /\ current_command.kind = "Command"
    /\ current_command.activity.name = "PushingFragments"
    /\ current_command.activity.data.some
    /\ current_command.activity.data.data[1] = continued[Len(continued)]

\* The activity of a current command of this kind, "None" for any other.
ActivityOf(current, kind) ==
    IF current # None /\ current.kind = kind THEN current.activity.name ELSE "None"

\* The blocked reason of send.rs for authenticate data, as a triple: the
\* reason is WaitForAuthenticateData, the continuation request was received,
\* the data was given.
AuthenticateWaitOf(progress) ==
    IF progress # None /\ progress.blocked_reason.name = "WaitForAuthenticateData"
    THEN <<TRUE, progress.blocked_reason.received_continue,
           progress.blocked_reason.data.some>>
    ELSE <<FALSE, FALSE, FALSE>>

\* C29: authenticate_continue succeeds exactly in WaitingForAuthenticateResponse
\* and set_authenticate_data exactly in WaitingForAuthenticateDataSet, a state
\* that only a successful authenticate_continue enters and that a successful
\* set_authenticate_data leaves: one continuation request allows one line of
\* data, and never before it.  A rejected call leaves the current command as
\* it is.  The same holds for continue_authenticate and
\* continue_authenticate_with_data of send.rs.
C29_AuthenticateTwoStep ==
    /\ [][(engine = "command") =>
            LET before == ActivityOf(current_command, "Authenticate")
                after == ActivityOf(current_command', "Authenticate")
            IN  /\ AuthenticateContinue =>
                    IF before = "WaitingForAuthenticateResponse"
                    THEN current_command' = [current_command EXCEPT
                            !.activity.name = "WaitingForAuthenticateDataSet"]
                    ELSE current_command' = current_command
                /\ SetAuthenticateData =>
                    IF before = "WaitingForAuthenticateDataSet"
                    THEN /\ after = "PushingAuthenticateData"
                         /\ current_command'.activity.data.some
                         /\ current_command'.handle = current_command.handle
                    ELSE current_command' = current_command
                /\ (after = "WaitingForAuthenticateDataSet" /\ before # after) =>
                        AuthenticateContinue
                /\ (after = "PushingAuthenticateData" /\ before # after) =>
                        SetAuthenticateData
                /\ (AuthenticateContinue \/ SetAuthenticateData) =>
                        UNCHANGED <<queued_commands, write_buffer, events>>]_vars
    /\ [][(engine = "send") =>
            LET before == AuthenticateWaitOf(send_progress)
                after == AuthenticateWaitOf(send_progress')
            IN  /\ SendContinueAuthenticate =>
                    IF before = <<TRUE, FALSE, FALSE>>
                    THEN send_progress' = [send_progress EXCEPT
                            !.blocked_reason.received_continue = TRUE]
                    ELSE send_progress' = send_progress
                /\ SendContinueAuthenticateWithData =>
                    IF before = <<TRUE, TRUE, FALSE>>
                    THEN /\ after = <<TRUE, TRUE, TRUE>>
                         /\ send_progress'.key = send_progress.key
                    ELSE send_progress' = send_progress
                /\ (after[2] /\ ~before[2]) => SendContinueAuthenticate
                /\ (after[3] /\ ~before[3]) => SendContinueAuthenticateWithData
                /\ after[3] => after[2]
                /\ (SendContinueAuthenticate \/ SendContinueAuthenticateWithData) =>
                        UNCHANGED <<send_queue, write_buffer, events>>]_vars

\* set_authenticate_data has just taken the data for a continuation request.
C29_Witness ==
    /\ engine = "command" /\ pc = "idle"
    /\ ActivityOf(current_command, "Authenticate") = "PushingAuthenticateData"
    /\ \E k \in 1..Len(wire) : wire[k].h = current_command.handle

\* C30: idle_continue succeeds exactly when the current command is an IDLE
\* command in WaitingForIdleResponse and set_idle_done exactly when it is in
\* WaitingForIdleDoneSet, a state that only a successful idle_continue enters
\* and that a successful set_idle_done leaves.  In every other state the call
\* leaves the current command as it is: set_idle_done before the continuation
\* request, or a second time, does nothing.
C30_IdleTwoStep ==
    [][(engine = "command") =>
        LET before == ActivityOf(current_command, "Idle")
            after == ActivityOf(current_command', "Idle")
        IN  /\ IdleContinue =>
                IF before = "WaitingForIdleResponse"
                THEN current_command' = [current_command EXCEPT
                        !.activity.name = "WaitingForIdleDoneSet"]
                ELSE current_command' = current_command
            /\ SetIdleDone =>
                IF before = "WaitingForIdleDoneSet"
                THEN /\ after = "PushingIdleDone"
                     /\ current_command'.activity.data =
                            SomeData(Bytes(current_command.handle, IdleDoneFrag))
                     /\ current_command'.handle = current_command.handle
                ELSE current_command' = current_command
            /\ (after = "WaitingForIdleDoneSet" /\ before # after) => IdleContinue
            /\ (after = "PushingIdleDone" /\ before # after) => SetIdleDone
            /\ (IdleContinue \/ SetIdleDone) =>
                    UNCHANGED <<queued_commands, write_buffer, events>>]_vars

\* set_idle_done has just taken effect after the continuation request of an
\* IDLE command.
C30_Witness ==
    /\ engine = "command" /\ pc = "idle"
    /\ ActivityOf(current_command, "Idle") = "PushingIdleDone"
    /\ \E k \in 1..Len(wire) : wire[k].h = current_command.handle

\* The handles the server has given out for its responses.
ResponseHandles == {enqueued[k].handle : k \in 1..Len(enqueued)} \ {NoHandle}

\* The step is progress returning AuthenticateDataReceived.
AuthenticateDataReceived ==
    /\ \E ev \in ReceiveEvents : ServerProgressReceive(ev)
    /\ events' = Append(events, Event("AuthenticateDataReceived", 0))

\* C31: authenticate_continue and authenticate_finish of the server, called
\* while it does not expect authenticate data, enqueue nothing, take no handle
\* and leave what the server expects as it is.  When progress has returned
\* CommandAuthenticateReceived or AuthenticateDataReceived the server expects
\* authenticate data, and either call enqueues its response under a handle
\* that no response had before.
C31_AuthenticateCalls ==
    /\ []((/\ engine = "server" /\ pc \in IdlePcs
           /\ receive_command_state = "AuthenticateData"
           /\ Len(enqueued) < MaxResponses) =>
            /\ ENABLED (ServerAuthenticateContinue /\ enqueued' # enqueued)
            /\ ENABLED (ServerAuthenticateFinish /\ enqueued' # enqueued))
    /\ [][(engine = "server") =>
        /\ (ServerAuthenticateContinue \/ ServerAuthenticateFinish) =>
                IF receive_command_state = "AuthenticateData"
                THEN /\ Len(enqueued') = Len(enqueued) + 1
                     /\ enqueued'[Len(enqueued')].handle = next_handle
                     /\ next_handle \notin ResponseHandles \cup {NoHandle}
                     /\ next_handle' = next_handle + 1
                     /\ Len(send_queue') = Len(send_queue) + 1
                     /\ send_queue'[Len(send_queue')].key = next_handle
                     /\ enqueued'[Len(enqueued')].response.type =
                            IF ServerAuthenticateFinish THEN "Status" ELSE "Continuation"
                ELSE UNCHANGED <<send_queue, enqueued, next_handle, send_progress,
                                 write_buffer, next_expected_message,
                                 receive_command_state, events>>
        /\ (CommandAuthenticateReceived \/ AuthenticateDataReceived) =>
                /\ receive_command_state' = "AuthenticateData"
                /\ pc' \in IdlePcs]_vars

\* After AuthenticateDataReceived authenticate_finish was accepted: the server
\* expects a command again and the status is enqueued under a handle.
C31_Witness ==
    /\ engine = "server"
    /\ \E i \in 1..Len(events) : events[i].type = "AuthenticateDataReceived"
    /\ receive_command_state = "Command"
    /\ enqueued # <<>>
    /\ enqueued[Len(enqueued)].response.type = "Status"
    /\ enqueued[Len(enqueued)].handle \in ResponseHandles

\* C32: when send_command.rs reports a regular command as sent, the command
\* has no fragment left and no literal in limbo, the write buffer is empty,
\* and the bytes of the command on the stream are its encoded fragments, all
\* of them, in their order.
C32_CommandSentComplete ==
    [][(engine = "command") =>
        \A h \in 1..Len(enqueued) :
            (events' = Append(events, Event("Command", h))) =>
                /\ current_command # None
                /\ current_command.kind = "Command"
                /\ current_command.handle = h
                /\ current_command.fragments = <<>>
                /\ current_command.activity =
                        [name |-> "WaitingForFragmentsSent", data |-> NoData]
                /\ current_command' = None
                /\ write_buffer = <<>> /\ write_buffer' = <<>>
                /\ BytesOf(h, wire) = Flatten(Encode(h, enqueued[h].body))]_vars

\* A command with two synchronizing literals was reported as sent.
C32_Witness ==
    /\ engine = "command"
    /\ \E k \in 1..Len(events) :
            /\ events[k].type = "Command"
            /\ enqueued[events[k].handle].body = "Sync2"

\* The activities in which a command waits for the server or for the caller.
WaitingActivities ==
    {"WaitingForLiteralAccepted", "WaitingForAuthenticateResponse",
     "WaitingForAuthenticateDataSet", "WaitingForIdleResponse", "WaitingForIdleDoneSet"}

QueuedHandles == {queued_commands[k].handle : k \in 1..Len(queued_commands)}

\* C33: progress of send_command.rs goes on with the current command when
\* there is one and takes the head of the queue only when there is none; the
\* queue loses a command in no other way.  While the current command waits,
\* progress changes neither the command nor the queue nor the write buffer.
\* No byte of a command that is still queued was ever pushed.
C33_OneInFlight ==
    /\ [](engine = "command" =>
            \A k \in 1..Len(Pushed) : Pushed[k].h \notin QueuedHandles)
    /\ [][(engine = "command") =>
            /\ ProgressBegin =>
                IF current_command # None
                THEN /\ queued_commands' = queued_commands
                     /\ current_command'.handle = current_command.handle
                     /\ current_command.activity.name \in WaitingActivities =>
                            /\ current_command' = current_command
                            /\ write_buffer' = write_buffer
                ELSE /\ queued_commands' = Tail(queued_commands)
                     /\ current_command'.handle = Head(queued_commands).handle
            /\ (queued_commands' # queued_commands) =>
                    \/ ProgressBegin /\ current_command = None
                    \/ /\ Len(queued_commands') = Len(queued_commands) + 1
                       /\ SubSeq(queued_commands', 1, Len(queued_commands))
                            = queued_commands]_vars

\* progress was called while the current command waits for its literal to be
\* accepted and another command is queued.
C33_Witness ==
    /\ engine = "command" /\ pc = "writing"
    /\ current_command # None
    /\ current_command.activity.name = "WaitingForLiteralAccepted"
    /\ queued_commands # <<>>
    /\ write_buffer = <<>>

\* How often the task with this handle is in the collection.
TaskCount(tasks, handle) ==
    Cardinality({k \in 1..Len(tasks) : tasks[k].handle = handle})

\* TaskFinished was returned for the task with this handle.
Finished(handle) ==
    \E k \in 1..Len(scheduler_events) :
        scheduler_events[k] = Event("TaskFinished", handle)

\* C34: a task that was enqueued and is not finished is in waiting or in
\* active, once and in one of them only; a finished task is in neither.  In a
\* step in which the flow emits CommandSent or AuthenticateStarted the task
\* of the handle is found in waiting and goes to the back of active, and the
\* active tasks are in the order in which they were submitted.
C34_SchedulerBookkeeping ==
    /\ [](engine = "scheduler" =>
            /\ \A h \in 1..Len(enqueued) :
                    TaskCount(waiting_tasks, h) + TaskCount(active_tasks, h) =
                        IF Finished(h) THEN 0 ELSE 1
            /\ \A h \in Range(TaskHandles(waiting_tasks) \o TaskHandles(active_tasks)) :
                    h \in 1..Len(enqueued)
            /\ \A j, k \in 1..Len(active_tasks) :
                    j < k => active_tasks[j].handle < active_tasks[k].handle)
    /\ [][(engine = "scheduler") =>
            \A h \in 1..Len(enqueued) :
                (\E type \in {"Command", "CommandAuthenticate"} :
                    events' = Append(events, Event(type, h))) =>
                    LET index == PositionByHandle(waiting_tasks, h) IN
                        /\ index # 0
                        /\ waiting_tasks' = RemoveAt(waiting_tasks, index)
                        /\ active_tasks' = Append(active_tasks, waiting_tasks[index])
                        /\ scheduler_events' = scheduler_events]_vars

\* Two commands were sent: both tasks have moved to active, in their order.
C34_Witness ==
    /\ engine = "scheduler"
    /\ waiting_tasks = <<>>
    /\ Len(active_tasks) = 2
    /\ \E j, k \in 1..Len(events) :
            /\ j < k
            /\ events[j] = Event("Command", 1)
            /\ events[k] = Event("CommandAuthenticate", 2)

\* The steps of the activity of an AUTHENTICATE command; "None" stands for no
\* current AUTHENTICATE command.  progress starts the command and pushes its
\* line in one call.
AuthenticateCycle ==
    {<<"None", "WaitingForAuthenticateSent">>,
     <<"WaitingForAuthenticateSent", "WaitingForAuthenticateResponse">>,
     <<"WaitingForAuthenticateResponse", "WaitingForAuthenticateDataSet">>,
     <<"WaitingForAuthenticateDataSet", "PushingAuthenticateData">>,
     <<"PushingAuthenticateData", "WaitingForAuthenticateDataSent">>,
     <<"WaitingForAuthenticateDataSent", "WaitingForAuthenticateResponse">>}

\* C35: the send path never completes an AUTHENTICATE command.  No sent event
\* is emitted for it; as current command it moves along the cycle of its
\* activities only; and it stops being the current command only by
\* maybe_remove with a tagged status of its tag (in send.rs: only by
\* remove_command_in_progress).
C35_AuthenticateNotCompleted ==
    /\ [](engine \in {"command", "send"} =>
            \A k \in 1..Len(events) :
                events[k].type \in {"Command", "CommandSent"} =>
                    enqueued[events[k].handle].body # "Authenticate")
    /\ [][(engine = "command") =>
            LET before == ActivityOf(current_command, "Authenticate")
                after == ActivityOf(current_command', "Authenticate")
            IN  /\ (before # after /\ after # "None") =>
                        <<before, after>> \in AuthenticateCycle
                /\ (before # "None" /\ after # "None") =>
                        current_command'.handle = current_command.handle
                /\ (before # "None" /\ after = "None") =>
                        /\ current_command' = None
                        /\ \E status \in Statuses :
                                /\ status.type = "Tagged"
                                /\ status.tag = current_command.command.tag
                                /\ MaybeRemove(status)]_vars
    /\ [][(/\ engine = "send"
            /\ send_progress # None
            /\ enqueued[send_progress.key].body = "Authenticate") =>
                \/ /\ send_progress' # None
                   /\ send_progress'.key = send_progress.key
                \/ SendRemoveCommandInProgress]_vars

\* An AUTHENTICATE command has sent a line of authenticate data and is still
\* the current command, waiting for the next answer of the server.
C35_Witness ==
    /\ engine = "command" /\ pc = "idle"
    /\ ActivityOf(current_command, "Authenticate") = "WaitingForAuthenticateResponse"
    /\ \E k \in 1..Len(wire) :
            /\ wire[k].h = current_command.handle
            /\ wire[k].f = AuthDataFrag(1)
    /\ write_buffer = <<>>

\* A terminal event was emitted for the command with this handle.
Terminated(h) == \E k \in 1..Len(events) : IsTerminal(k) /\ events[k].handle = h

Absorbing ==
    IF engine = "command"
    THEN {call \in {"literal_continue", "authenticate_continue", "idle_continue"} :
            CASE call = "literal_continue" ->
                    ENABLED (LiteralContinue /\ current_command' # current_command)
              [] call = "authenticate_continue" ->
                    ENABLED (AuthenticateContinue /\ current_command' # current_command)
              [] OTHER ->
                    ENABLED (IdleContinue /\ current_command' # current_command)}
    ELSE {call \in {"continue_literal", "continue_authenticate"} :
            CASE call = "continue_literal" ->
                    ENABLED (SendContinueLiteral /\ send_progress' # send_progress)
              [] OTHER ->
                    ENABLED (SendContinueAuthenticate /\ send_progress' # send_progress)}

\* C37: in every state of a client send engine at most one of the continue
\* calls can succeed, and after a successful one the same call does not
\* succeed again: a continuation request is taken once.
C37_OneContinuation ==
    /\ []((engine \in {"command", "send"} /\ pc \in IdlePcs) =>
            Cardinality(Absorbing) <= 1)
    /\ [][(engine = "command" /\ current_command' # current_command) =>
            /\ LiteralContinue => ~LiteralContinueOk(current_command')
            /\ AuthenticateContinue => ~AuthenticateContinueOk(current_command')
            /\ IdleContinue => ~IdleContinueOk(current_command')]_vars
    /\ [][(engine = "send" /\ send_progress' # send_progress) =>
            /\ SendContinueLiteral => ~SendContinueLiteralOk(send_progress')
            /\ SendContinueAuthenticate =>
                    ~SendContinueAuthenticateOk(send_progress')]_vars

\* continue_authenticate has just taken a continuation request: no continue
\* call can succeed now.
C37_Witness ==
    /\ engine = "send" /\ pc = "idle"
    /\ AuthenticateWaitOf(send_progress) = <<TRUE, TRUE, FALSE>>
    /\ Absorbing = {}

\* C38: maybe_remove returns a termination only for a tagged status with the
\* tag of the current command.  For an untagged status, a BYE, a tagged status
\* with another tag, OK or NO with the tag of a regular command, and without
\* a current command, it returns nothing and leaves the current command as it
\* is.  It never changes the queue or the write buffer.
C38_MaybeRemoveFrame ==
    [][(engine = "command") =>
        \A status \in Statuses :
            MaybeRemove(status) =>
                LET returned == events' # events
                    matching == /\ status.type = "Tagged"
                                /\ current_command # None
                                /\ status.tag = current_command.command.tag
                IN  /\ returned => matching
                    /\ returned =>
                            /\ current_command' = None
                            /\ Len(events') = Len(events) + 1
                            /\ events'[Len(events')].type \in RemovedTypes
                            /\ events'[Len(events')].handle = current_command.handle
                    /\ (\/ ~matching
                        \/ /\ current_command.kind = "Command"
                           /\ status.kind \in {"Ok", "No"}) =>
                            /\ ~returned
                            /\ current_command' = current_command
                    /\ UNCHANGED <<queued_commands, write_buffer, wire>>]_vars

\* A tagged BAD with the tag of the current command removed it while another
\* command is queued.
C38_Witness ==
    /\ engine = "command" /\ pc = "idle"
    /\ events # <<>>
    /\ events[Len(events)] = Event("LiteralRejected", 1)
    /\ current_command = None
    /\ queued_commands # <<>>

\* C39: from the progress that returns CommandAuthenticateReceived until an
\* accepted authenticate_finish the server stays in the authenticate data
\* mode, and every message progress decodes in that mode is returned as
\* AuthenticateDataReceived or as an error, never as CommandReceived or
\* CommandAuthenticateReceived.  next_expected_message and the variant of
\* receive_command_state agree in every state, and the variant is never Dummy.
C39_AuthenticateDataMode ==
    /\ [](engine = "server" =>
            /\ receive_command_state \notin {"Dummy", "Unreachable"}
            /\ next_expected_message = receive_command_state)
    /\ [][(engine = "server") =>
            /\ CommandAuthenticateReceived =>
                    /\ receive_command_state = "Command"
                    /\ receive_command_state' = "AuthenticateData"
            /\ (/\ receive_command_state = "AuthenticateData"
                /\ ~(ServerAuthenticateFinish /\ enqueued' # enqueued)) =>
                    receive_command_state' = "AuthenticateData"
            /\ (/\ receive_command_state = "AuthenticateData"
                /\ \E ev \in ReceiveEvents : ServerProgressReceive(ev)) =>
                    /\ Len(events') = Len(events) + 1
                    /\ events'[Len(events')].type \in
                            {"AuthenticateDataReceived"} \cup RecoverableErrors
                    /\ events'[Len(events')].type \notin
                            {"CommandReceived", "CommandAuthenticateReceived"}]_vars

\* After CommandAuthenticateReceived a line was decoded as authenticate data
\* and the server still expects authenticate data.
C39_Witness ==
    /\ engine = "server"
    /\ receive_command_state = "AuthenticateData"
    /\ Len(events) >= 2
    /\ events[Len(events) - 1].type = "CommandAuthenticateReceived"
    /\ events[Len(events)].type = "AuthenticateDataReceived"

\* C40: in the response send engine the write buffer is empty whenever no
\* response is in flight and no progress future exists, so the assertion
\* progress makes before it takes the next queued response never fails, also
\* after dropped futures and stream errors.
C40_EmptyBufferWithoutResponse ==
    engine = "response" =>
        /\ pc # "panicked"
        /\ (pc \in IdlePcs /\ current_response = None) => write_buffer = <<>>

\* After one response was sent completely progress took the next one with an
\* empty buffer, and was interrupted with a part of it written.
C40_Witness ==
    /\ engine = "response" /\ pc = "cancelled"
    /\ events # <<>>
    /\ current_response # None
    /\ write_buffer # <<>>
    /\ wire # <<>> /\ wire[Len(wire)].h = write_buffer[1].h

====
